---- MODULE Spec2Model ----
(***************************************************************************)
(* Test-and-coverage orchestration scripts of                              *)
(* continuous-deployment-on-kubernetes:                                    *)
(*   automated_reporting.py            (AutomatedReporter)                 *)
(*   test_all_systems.py               (SystemTester)                      *)
(*   test_comprehensive.py             (TestOrchestrator, sample-app)      *)
(*   sample-app/coverage_analysis.py   (CoverageAnalyzer)                  *)
(*   algorithm-visualization/test_comprehensive.py (TestOrchestrator)      *)
(*                                                                         *)
(* Text is a sequence of one-character strings; a tool output is the       *)
(* sequence of its lines (what split('\n') returns).  Percentages are      *)
(* kept in tenths of a percent (84.7% is 847); the texts the model draws   *)
(* carry at most one fractional digit, so no precision is lost.            *)
(***************************************************************************)
EXTENDS Integers, Sequences, FiniteSets, TLC

VARIABLES prog, prs, ana, rep, sys, smp, alg

vars == <<prog, prs, ana, rep, sys, smp, alg>>

(***************************************************************************)
(* Python str operations used by the parsers.                              *)
(***************************************************************************)
TAB == "\t"
SPC == " "

IsSpace(c) == c \in {TAB, SPC}

RECURSIVE lstrip(_)
lstrip(s) == IF s # <<>> /\ IsSpace(Head(s)) THEN lstrip(Tail(s)) ELSE s

RECURSIVE rstrip(_)
rstrip(s) ==
    IF s # <<>> /\ IsSpace(s[Len(s)]) THEN rstrip(SubSeq(s, 1, Len(s) - 1)) ELSE s

strip(s) == lstrip(rstrip(s))

\* s.rstrip(c) for a single character c
RECURSIVE rstrip_char(_, _)
rstrip_char(s, c) ==
    IF s # <<>> /\ s[Len(s)] = c THEN rstrip_char(SubSeq(s, 1, Len(s) - 1), c) ELSE s

\* s.replace(c, '') for a single character c
remove_char(s, c) == SelectSeq(s, LAMBDA x : x # c)

\* sub in s
contains(s, sub) ==
    \E i \in 0..(Len(s) - Len(sub)) : SubSeq(s, i + 1, i + Len(sub)) = sub

\* index of the first occurrence of sub in s, 0 when there is none (s.find(sub) + 1)
find(s, sub) ==
    IF contains(s, sub)
    THEN CHOOSE i \in 1..(Len(s) - Len(sub) + 1) :
            /\ SubSeq(s, i, i + Len(sub) - 1) = sub
            /\ \A j \in 1..(i - 1) : SubSeq(s, j, j + Len(sub) - 1) # sub
    ELSE 0

\* s.split(sep) for a non-empty separator: every field, the empty ones too
RECURSIVE split(_, _)
split(s, sep) ==
    LET k == find(s, sep)
    IN  IF k = 0 THEN <<s>>
        ELSE <<SubSeq(s, 1, k - 1)>> \o split(SubSeq(s, k + Len(sep), Len(s)), sep)

\* s.split(): the maximal runs of non-whitespace characters
RECURSIVE split_ws(_)
split_ws(s) ==
    LET t == lstrip(s)
    IN  IF t = <<>> THEN <<>>
        ELSE LET n == IF \E i \in 1..Len(t) : IsSpace(t[i])
                      THEN (CHOOSE i \in 1..Len(t) :
                                IsSpace(t[i]) /\ \A j \in 1..(i - 1) : ~IsSpace(t[j])) - 1
                      ELSE Len(t)
             IN  <<SubSeq(t, 1, n)>> \o split_ws(SubSeq(t, n + 1, Len(t)))

\* s.lower()
lower(s) ==
    LET upper_case == <<"A", "B", "C", "D", "E", "F", "G", "H", "I", "J", "K", "L", "M",
                        "N", "O", "P", "Q", "R", "S", "T", "U", "V", "W", "X", "Y", "Z">>
        lower_case == <<"a", "b", "c", "d", "e", "f", "g", "h", "i", "j", "k", "l", "m",
                        "n", "o", "p", "q", "r", "s", "t", "u", "v", "w", "x", "y", "z">>
    IN  [i \in 1..Len(s) |->
            IF \E k \in 1..26 : upper_case[k] = s[i]
            THEN lower_case[CHOOSE k \in 1..26 : upper_case[k] = s[i]]
            ELSE s[i]]

IsDigit(c) == c \in {"0", "1", "2", "3", "4", "5", "6", "7", "8", "9"}
DigitVal(c) ==
    LET digits == <<"0", "1", "2", "3", "4", "5", "6", "7", "8", "9">>
    IN  (CHOOSE k \in 1..10 : digits[k] = c) - 1

RECURSIVE DecimalVal(_)
DecimalVal(ds) ==
    IF ds = <<>> THEN 0
    ELSE DecimalVal(SubSeq(ds, 1, Len(ds) - 1)) * 10 + DigitVal(ds[Len(ds)])

AllDigits(s) == \A i \in 1..Len(s) : IsDigit(s[i])

(***************************************************************************)
(* float(s): surrounding whitespace is ignored, then an optional sign,     *)
(* digits, and an optional point with digits (one digit at least).         *)
(* FloatOk says whether float(s) returns; when it does not, the call       *)
(* raises ValueError.  FloatVal is the value in tenths.                    *)
(***************************************************************************)
FloatBody(s) ==
    LET t == strip(s)
    IN  IF t # <<>> /\ Head(t) \in {"-", "+"} THEN Tail(t) ELSE t

FloatNegative(s) == LET t == strip(s) IN t # <<>> /\ Head(t) = "-"

FloatOk(s) ==
    LET b == FloatBody(s)
        parts == split(b, <<".">>)
    IN  /\ b # <<>>
        /\ Len(parts) <= 2
        /\ \A i \in 1..Len(parts) : AllDigits(parts[i])
        /\ \E i \in 1..Len(parts) : parts[i] # <<>>

FloatVal(s) ==
    LET b == FloatBody(s)
        parts == split(b, <<".">>)
        whole == DecimalVal(parts[1])
        tenth == IF Len(parts) = 2 /\ parts[2] # <<>> THEN DigitVal(parts[2][1]) ELSE 0
        mag == whole * 10 + tenth
    IN  IF FloatNegative(s) THEN 0 - mag ELSE mag

(***************************************************************************)
(* output.strip().split('\n') on a text given as its lines: blank lines    *)
(* at both ends go, the first line loses its leading and the last line     *)
(* its trailing whitespace; nothing left gives the single line ''.         *)
(***************************************************************************)
strip_lines(ls) ==
    LET filled == {i \in 1..Len(ls) : strip(ls[i]) # <<>>}
        core == IF filled = {} THEN <<>>
                ELSE SubSeq(ls, CHOOSE i \in filled : \A j \in filled : i <= j,
                                CHOOSE i \in filled : \A j \in filled : i >= j)
    IN  IF core = <<>> THEN << <<>> >>
        ELSE [i \in 1..Len(core) |->
                LET a == IF i = 1 THEN lstrip(core[i]) ELSE core[i]
                IN  IF i = Len(core) THEN rstrip(a) ELSE a]

(***************************************************************************)
(* Python dict: a function; {} is the function with the empty domain.      *)
(***************************************************************************)
EmptyDict == [k \in {} |-> 0]

dict_set(d, key, value) == [k \in DOMAIN d \cup {key} |-> IF k = key THEN value ELSE d[k]]

PCT == "%"
total_marker == <<"t", "o", "t", "a", "l", ":">>

(***************************************************************************)
(* CoverageAnalyzer.parse_coverage_output (sample-app/coverage_analysis.py)*)
(***************************************************************************)
\* lines 101-113: the first tab-separated part that holds a '%' and whose
\* text without '%' is a float; 0 when no part is
FirstPercentPart(all_parts) ==
    LET good(k) == /\ contains(all_parts[k], <<PCT>>)
                   /\ FloatOk(remove_char(all_parts[k], PCT))
    IN  IF \E k \in 1..Len(all_parts) : good(k)
        THEN CHOOSE k \in 1..Len(all_parts) : good(k) /\ \A j \in 1..(k - 1) : ~good(j)
        ELSE 0

\* the percentage of a total line taken from the third tab-separated part,
\* as the last-line fallback of lines 129-143 does
parse_line_third_part(coverage_data, line) ==
    IF strip(line) = <<>> THEN coverage_data
    ELSE LET parts == split(line, <<TAB>>)
         IN  IF Len(parts) >= 3 /\ FloatOk(remove_char(parts[3], PCT))
             THEN IF contains(line, total_marker)
                  THEN [coverage_data EXCEPT !.total =
                           [coverage |-> FloatVal(remove_char(parts[3], PCT)),
                            statements |-> parts[2]]]
                  ELSE [coverage_data EXCEPT !.files =
                           dict_set(@, parts[1],
                                    [coverage |-> FloatVal(remove_char(parts[3], PCT)),
                                     statements |-> parts[2]])]
             ELSE coverage_data

\* lines 96-127: the body of the loop over the lines
parse_line(coverage_data, line) ==
    IF strip(line) = <<>> THEN coverage_data
    ELSE IF contains(line, total_marker)
    THEN LET all_parts == split(line, <<TAB>>)
             k == FirstPercentPart(all_parts)
         IN  IF k = 0 THEN coverage_data
             ELSE [coverage_data EXCEPT !.total =
                      [coverage |-> FloatVal(remove_char(all_parts[k], PCT)),
                       statements |-> <<"0">>]]
    ELSE LET parts == split(line, <<TAB>>)
         IN  IF Len(parts) >= 3 /\ FloatOk(remove_char(parts[3], PCT))
             THEN [coverage_data EXCEPT !.files =
                      dict_set(@, parts[1],
                               [coverage |-> FloatVal(remove_char(parts[3], PCT)),
                                statements |-> parts[2]])]
             ELSE coverage_data

RECURSIVE parse_lines(_, _)
parse_lines(coverage_data, lines) ==
    IF lines = <<>> THEN coverage_data
    ELSE parse_lines(parse_line(coverage_data, Head(lines)), Tail(lines))

\* lines 129-143: no total found in the loop, try the last line
parse_last_line(coverage_data, lines) ==
    IF coverage_data.total = EmptyDict /\ lines # <<>>
    THEN LET last_line == lines[Len(lines)]
             parts == split(last_line, <<TAB>>)
         IN  IF /\ contains(last_line, total_marker)
                /\ Len(parts) >= 3
                /\ FloatOk(remove_char(parts[3], PCT))
             THEN [coverage_data EXCEPT !.total =
                      [coverage |-> FloatVal(remove_char(parts[3], PCT)),
                       statements |-> parts[2]]]
             ELSE coverage_data
    ELSE coverage_data

\* the total starting as a measured 0.0 instead of the empty mapping
parse_coverage_output_zero_total(output) ==
    LET lines == strip_lines(output)
    IN  parse_lines([files |-> EmptyDict, total |-> [coverage |-> 0, statements |-> <<"0">>]],
                    lines)

parse_coverage_output(output) ==
    LET lines == strip_lines(output)
    IN  parse_last_line(parse_lines([files |-> EmptyDict, total |-> EmptyDict], lines), lines)

(***************************************************************************)
(* AutomatedReporter.get_service_coverage, lines 86-106: the parse of the  *)
(* output of "go tool cover -func" (automated_reporting.py)                *)
(***************************************************************************)
func_line(acc, line) ==
    IF strip(line) = <<>> THEN acc
    ELSE LET parts == split_ws(line)
         IN  IF Len(parts) >= 3 /\ FloatOk(rstrip_char(parts[Len(parts)], PCT))
             THEN LET coverage == FloatVal(rstrip_char(parts[Len(parts)], PCT))
                  IN  IF contains(line, total_marker)
                      THEN [acc EXCEPT !.total_coverage = coverage]
                      ELSE [acc EXCEPT !.function_coverage =
                               Append(@, [function |-> parts[2], coverage |-> coverage])]
             ELSE acc

RECURSIVE func_lines(_, _)
func_lines(acc, lines) ==
    IF lines = <<>> THEN acc ELSE func_lines(func_line(acc, Head(lines)), Tail(lines))

parse_func_output(stdout) ==
    func_lines([total_coverage |-> 0, function_coverage |-> <<>>], stdout)

(***************************************************************************)
(* Tool output the model draws: lines of "go tool cover -func" and lines   *)
(* that are not in its layout.                                             *)
(***************************************************************************)
RECURSIVE join(_, _)
join(fields, sep) ==
    IF Len(fields) = 0 THEN <<>>
    ELSE IF Len(fields) = 1 THEN fields[1]
    ELSE fields[1] \o sep \o join(Tail(fields), sep)

\* the words of the lines
Words ==
    [statements |-> <<"(", "s", "t", "a", "t", "e", "m", "e", "n", "t", "s", ")">>,
     file_a |-> <<"a", ".", "g", "o", ":", "1", ":">>,
     file_b |-> <<"b", ".", "g", "o", ":", "2", ":">>,
     f |-> <<"f">>,
     g |-> <<"g">>]
\* the percentages of the lines: 84.7%, 0.0%, ..., and one that is no number
Percents ==
    [p847 |-> <<"8", "4", ".", "7", "%">>,
     p0 |-> <<"0", ".", "0", "%">>,
     p60 |-> <<"6", "0", ".", "0", "%">>,
     p80 |-> <<"8", "0", ".", "0", "%">>,
     p100 |-> <<"1", "0", "0", ".", "0", "%">>,
     p150 |-> <<"1", "5", "0", ".", "0", "%">>,
     pbad |-> <<"n", "/", "a", "%">>]

\* "total:<tabs>(statements)<tab>P", what go tool cover -func prints last
TotalLine(p) == join(<<total_marker, <<>>, Words.statements, p>>, <<TAB>>)
\* "total: P", the two fields separated by one space
SpaceTotalLine(p) == join(<<total_marker, p>>, <<SPC>>)
\* "file:line:<tab>function<tab>P"
EntryLine(file, fn, p) == join(<<file, fn, p>>, <<TAB>>)

Lines ==
    {TotalLine(Percents.p847), TotalLine(Percents.p0), TotalLine(Percents.p60),
     SpaceTotalLine(Percents.p847), SpaceTotalLine(Percents.p0),
     EntryLine(Words.file_a, Words.f, Percents.p80),
     EntryLine(Words.file_a, Words.f, Percents.p60),
     EntryLine(Words.file_b, Words.g, Percents.p100),
     <<>>,
     TotalLine(Percents.pbad),
     EntryLine(Words.file_a, Words.f, Percents.pbad),
     EntryLine(Words.file_b, Words.g, Percents.p150),
     join(<<Words.file_a, <<>>, Words.f, Percents.p80>>, <<TAB>>)}

MaxLines == 3

Texts == UNION {[1..n -> Lines] : n \in 1..MaxLines}

(***************************************************************************)
(* The parsers as a program: a text comes in, each parser is applied.      *)
(***************************************************************************)
Idle == [pc |-> "idle"]

InitParse ==
    /\ prog = "parse"
    /\ \E output \in Texts : prs = [pc |-> "input", output |-> output]
    /\ ana = Idle /\ rep = Idle /\ sys = Idle /\ smp = Idle /\ alg = Idle

Parse ==
    /\ prog = "parse"
    /\ prs.pc = "input"
    /\ prs' = [pc |-> "parsed",
               output |-> prs.output,
               coverage_data |-> parse_coverage_output(prs.output),
               service |-> parse_func_output(prs.output)]
    /\ UNCHANGED <<prog, ana, rep, sys, smp, alg>>

SpecParse == InitParse /\ [][Parse]_vars

(***************************************************************************)
(* CoverageAnalyzer.analyze_coverage (sample-app/coverage_analysis.py).    *)
(* Thresholds are in tenths of a percent, like every coverage value.       *)
(***************************************************************************)
\* get_default_config, lines 33-43
get_default_config ==
    [coverage_requirements |->
        [overall |-> [minimum |-> 700, target |-> 800, excellent |-> 900]]]

\* lines 150-153
total_of(coverage_data) ==
    IF "coverage" \in DOMAIN coverage_data.total THEN coverage_data.total.coverage ELSE 0

\* the bands with their lower edges left out
overall_status_exclusive(total_coverage, requirements) ==
    IF total_coverage > requirements.excellent THEN "excellent"
    ELSE IF total_coverage > requirements.target THEN "good"
    ELSE IF total_coverage > requirements.minimum THEN "acceptable"
    ELSE "poor"

\* lines 157-169
overall_status(total_coverage, requirements) ==
    IF total_coverage >= requirements.excellent THEN "excellent"
    ELSE IF total_coverage >= requirements.target THEN "good"
    ELSE IF total_coverage >= requirements.minimum THEN "acceptable"
    ELSE "poor"

\* lines 176-183
file_status(file_coverage) ==
    IF file_coverage >= 900 THEN "excellent"
    ELSE IF file_coverage >= 800 THEN "good"
    ELSE IF file_coverage >= 700 THEN "acceptable"
    ELSE "needs_improvement"

\* lines 147-200
analyze_coverage(coverage_config, coverage_data) ==
    LET total_coverage == total_of(coverage_data)
        requirements == coverage_config.coverage_requirements.overall
    IN  [total_coverage |-> total_coverage,
         status |-> overall_status(total_coverage, requirements),
         meets_minimum |-> total_coverage >= requirements.minimum,
         meets_target |-> total_coverage >= requirements.target,
         meets_excellent |-> total_coverage >= requirements.excellent,
         file_analysis |->
            [f \in DOMAIN coverage_data.files |->
                [coverage |-> coverage_data.files[f].coverage,
                 status |-> file_status(coverage_data.files[f].coverage),
                 needs_attention |-> coverage_data.files[f].coverage < 700]],
         requirements |-> requirements]

(***************************************************************************)
(* analyze_coverage as a program: a configuration as load_coverage_config  *)
(* returns it (the file's content is not validated, lines 23-31) and a     *)
(* parsed report come in, the analysis goes out.                           *)
(***************************************************************************)
Requirements(minimum, target, excellent) ==
    [coverage_requirements |->
        [overall |-> [minimum |-> minimum, target |-> target, excellent |-> excellent]]]

Configs == {get_default_config,
            Requirements(600, 750, 950),
            Requirements(800, 800, 900),
            Requirements(800, 700, 900)}

MaxCoverage == 1000

ParsedReports ==
    {[files |-> EmptyDict, total |-> EmptyDict]}
    \cup {[files |-> dict_set(EmptyDict, Words.file_a, [coverage |-> c, statements |-> Words.f]),
           total |-> [coverage |-> c, statements |-> <<"0">>]] : c \in 0..MaxCoverage}

InitAnalyze ==
    /\ prog = "analyze"
    /\ \E config \in Configs, coverage_data \in ParsedReports :
          ana = [pc |-> "input", coverage_config |-> config, coverage_data |-> coverage_data]
    /\ prs = Idle /\ rep = Idle /\ sys = Idle /\ smp = Idle /\ alg = Idle

Analyze ==
    /\ prog = "analyze"
    /\ ana.pc = "input"
    /\ ana' = [pc |-> "analyzed",
               coverage_config |-> ana.coverage_config,
               coverage_data |-> ana.coverage_data,
               analysis |-> analyze_coverage(ana.coverage_config, ana.coverage_data)]
    /\ UNCHANGED <<prog, prs, rep, sys, smp, alg>>

SpecAnalyze == InitAnalyze /\ [][Analyze]_vars

(***************************************************************************)
(* What the toolchain can answer to one subprocess.run: the command exits  *)
(* with a return code and its captured text, it outlives the timeout       *)
(* (subprocess.TimeoutExpired), or it cannot be started (an OSError such   *)
(* as FileNotFoundError for the executable or the working directory).      *)
(***************************************************************************)
Exit(returncode, stdout, stderr) ==
    [kind |-> "exit", returncode |-> returncode, stdout |-> stdout, stderr |-> stderr]
TimedOut == [kind |-> "timeout"]
LaunchFailed == [kind |-> "oserror"]

\* a text is the sequence of its lines; '' is the one empty line
EmptyText == << <<>> >>
IsEmptyText(text) == text = EmptyText

\* the texts the commands and the runners produce, each a sequence of lines
ToolTexts ==
    \* "Command timed out", the stderr of run_command after a timeout
    [timed_out |-> << <<"C", "o", "m", "m", "a", "n", "d", " ", "t", "i", "m", "e", "d", " ", "o", "u", "t">> >>,
    \* str(e) of the OSError, "No such file"
     os_error |-> << <<"N", "o", " ", "s", "u", "c", "h", " ", "f", "i", "l", "e">> >>,
    \* what the toolchain prints
     ok |-> << <<"o", "k">> >>,
     fail |-> << <<"F", "A", "I", "L">> >>,
     no_profile |-> << <<"n", "o", " ", "p", "r", "o", "f", "i", "l", "e">> >>,
    \* "Timeout", the stderr of test_comprehensive.run_command after a timeout
     timeout_word |-> << <<"T", "i", "m", "e", "o", "u", "t">> >>,
    \* go test -v output: one passed test; one passed and one failed test
     passed_tests |-> << <<"-", "-", "-", " ", "P", "A", "S", "S", ":", " ", "T", "e", "s", "t", "A">>, <<"o", "k">> >>,
     failed_tests |-> << <<"-", "-", "-", " ", "P", "A", "S", "S", ":", " ", "T", "e", "s", "t", "A">>, <<"-", "-", "-", " ", "F", "A", "I", "L", ":", " ", "T", "e", "s", "t", "B">> >>,
    \* what gofmt -l prints when a file is not formatted
     unformatted |-> << <<"m", "a", "i", "n", ".", "g", "o">> >>]

(***************************************************************************)
(* Python floats (IEEE 754 binary64), as far as the aggregation of the     *)
(* reports needs them: float() of a decimal text, +, / by a count and      *)
(* round(x, 2).  A float is 0.0 or m * 2^e with m a natural number of 53   *)
(* bits.  Natural numbers of that size are sequences of bits, most         *)
(* significant bit first, <<>> being 0.                                    *)
(***************************************************************************)
Trim(bits) ==
    LET ones == {i \in 1..Len(bits) : bits[i] = 1}
    IN  IF ones = {} THEN <<>>
        ELSE SubSeq(bits, CHOOSE i \in ones : \A j \in ones : i <= j, Len(bits))

RECURSIVE FromInt(_)
FromInt(n) == IF n = 0 THEN <<>> ELSE Append(FromInt(n \div 2), n % 2)

RECURSIVE ToInt(_)
ToInt(bits) ==
    IF bits = <<>> THEN 0 ELSE 2 * ToInt(SubSeq(bits, 1, Len(bits) - 1)) + bits[Len(bits)]

Zeros(k) == [i \in 1..k |-> 0]

\* the arithmetic goes over digits of 15 bits, least significant digit first
Limbs(bits) ==
    LET digits == (Len(bits) + 14) \div 15
        padded == Zeros(15 * digits - Len(bits)) \o bits
    IN  [i \in 1..digits |-> ToInt(SubSeq(padded, 15 * (digits - i) + 1, 15 * (digits - i) + 15))]

Bits(limbs) ==
    Trim([i \in 1..(15 * Len(limbs)) |->
             (limbs[Len(limbs) - ((i - 1) \div 15)] \div 2^(14 - ((i - 1) % 15))) % 2])

\* a * k + carry, for a small k
RECURSIVE MulLimbs(_, _, _)
MulLimbs(a, k, carry) ==
    IF a = <<>> THEN IF carry = 0 THEN <<>> ELSE <<carry>>
    ELSE LET s == Head(a) * k + carry
         IN  <<s % 32768>> \o MulLimbs(Tail(a), k, s \div 32768)

\* a + b + carry
RECURSIVE AddLimbs(_, _, _)
AddLimbs(a, b, carry) ==
    IF a = <<>> /\ b = <<>> THEN IF carry = 0 THEN <<>> ELSE <<carry>>
    ELSE LET s == (IF a = <<>> THEN 0 ELSE Head(a)) + (IF b = <<>> THEN 0 ELSE Head(b)) + carry
         IN  <<s % 32768>> \o AddLimbs(IF a = <<>> THEN a ELSE Tail(a),
                                       IF b = <<>> THEN b ELSE Tail(b),
                                       s \div 32768)

\* quotient and remainder of a by a small d, from the most significant digit on
RECURSIVE DivLimbs(_, _, _)
DivLimbs(a, d, rem) ==
    IF a = <<>> THEN [q |-> <<>>, r |-> rem]
    ELSE LET cur == 32768 * rem + a[Len(a)]
             rest == DivLimbs(SubSeq(a, 1, Len(a) - 1), d, cur % d)
         IN  [q |-> Append(rest.q, cur \div d), r |-> rest.r]

\* n * 2^e rounded to the nearest float, a tie to the even mantissa; inexact
\* says that n itself was cut off below its last bit
RoundNearestEven(n, e, inexact) ==
    LET bits == Trim(n)
        drop == Len(bits) - 53
    IN  IF bits = <<>> THEN [m |-> <<>>, e |-> 0]
        ELSE IF drop <= 0 THEN [m |-> bits \o Zeros(-drop), e |-> e + drop]
        ELSE LET kept == SubSeq(bits, 1, 53)
                 guard == bits[54]
                 sticky == inexact \/ \E i \in 55..Len(bits) : bits[i] = 1
                 up == guard = 1 /\ (sticky \/ kept[53] = 1)
                 m == IF up THEN Bits(AddLimbs(Limbs(kept), <<1>>, 0)) ELSE kept
             IN  IF Len(m) = 54 THEN [m |-> SubSeq(m, 1, 53), e |-> e + drop + 1]
                 ELSE [m |-> m, e |-> e + drop]

\* float(coverage_str) for a text of one decimal: the float nearest to tenths / 10
to_float(tenths) ==
    LET d == DivLimbs(Limbs(FromInt(tenths) \o Zeros(60)), 10, 0)
    IN  RoundNearestEven(Bits(d.q), -60, d.r # 0)

\* x + y
float_add(x, y) ==
    IF x.m = <<>> THEN y
    ELSE IF y.m = <<>> THEN x
    ELSE LET e == IF x.e < y.e THEN x.e ELSE y.e
         IN  RoundNearestEven(Bits(AddLimbs(Limbs(x.m \o Zeros(x.e - e)),
                                            Limbs(y.m \o Zeros(y.e - e)), 0)), e, FALSE)

\* x / n for a count n
float_div(x, n) ==
    LET d == DivLimbs(Limbs(x.m \o Zeros(10)), n, 0)
    IN  RoundNearestEven(Bits(d.q), x.e - 10, d.r # 0)

\* round(x, 2), in hundredths: the decimal of two places nearest to the exact
\* value of x, a tie to the even digit
round2(x) ==
    IF x.m = <<>> THEN 0
    ELSE LET n == Zeros(-x.e + 1) \o Bits(MulLimbs(Limbs(x.m), 100, 0))
             cut == Len(n) + x.e
             whole == ToInt(Trim(SubSeq(n, 1, cut)))
             guard == n[cut + 1]
             sticky == \E i \in (cut + 2)..Len(n) : n[i] = 1
         IN  IF guard = 1 /\ (sticky \/ whole % 2 = 1) THEN whole + 1 ELSE whole

(***************************************************************************)
(* AutomatedReporter (automated_reporting.py)                              *)
(***************************************************************************)
\* __init__, lines 24-35: the names are service_path.name of each entry
services == <<"sample-app", "googledocs", "quora", "messaging", "dns",
              "webcrawler", "newsfeed", "loadbalancer", "tinyurl", "typeahead">>

\* the model runs the first NumServices entries of the list
NumServices == 3

\* run_command, lines 44-58
run_command(outcome) ==
    IF outcome.kind = "exit" THEN <<outcome.returncode, outcome.stdout, outcome.stderr>>
    ELSE IF outcome.kind = "timeout" THEN <<-1, EmptyText, ToolTexts.timed_out>>
    ELSE <<-1, EmptyText, ToolTexts.os_error>>

\* "go tool cover -func" outputs the orchestrators are run against

TestOutcomes == {Exit(0, ToolTexts.ok, EmptyText), Exit(1, EmptyText, ToolTexts.fail), TimedOut, LaunchFailed}
CoverOutcomes ==
    LET texts == {<<EntryLine(Words.file_a, Words.f, Percents.p60), TotalLine(Percents.p80)>>,
                 <<TotalLine(Percents.p60)>>,
                 <<TotalLine(Percents.p0)>>,
                 <<EntryLine(Words.file_a, Words.f, Percents.p80)>>}
    IN  {Exit(0, text, EmptyText) : text \in texts} \cup {Exit(1, EmptyText, ToolTexts.no_profile)}
HtmlOutcomes == {Exit(0, EmptyText, EmptyText), Exit(1, EmptyText, ToolTexts.no_profile)}

NoCall == [kind |-> "none"]

RepInit ==
    [pc |-> "loop", i |-> 1,
     services |-> EmptyDict, summary |-> EmptyDict,
     total_coverage |-> to_float(0), passed_count |-> 0, failed_count |-> 0,
     function_coverage |-> <<>>, coverage |-> 0,
     outcome |-> NoCall, ret |-> <<0, EmptyText, EmptyText>>,
     exists |-> [u \in {} |-> TRUE], invoked |-> [u \in 1..NumServices |-> 0],
     tests |-> [u \in {} |-> NoCall], cover |-> [u \in {} |-> NoCall],
     html |-> EmptyDict,
     saved |-> FALSE, fault |-> "none", exit_status |-> 0]

\* the batch given up at the first unit that fails
record_result_abort(r, result) ==
    [r EXCEPT !.services = dict_set(@, services[r.i], result),
              !.passed_count = IF result.status = "PASSED" THEN @ + 1 ELSE @,
              !.total_coverage = IF result.status = "PASSED"
                                   THEN float_add(@, to_float(result.coverage)) ELSE @,
              !.failed_count = IF result.status = "PASSED" THEN @ ELSE @ + 1,
              !.i = IF result.status = "PASSED" THEN @ + 1 ELSE NumServices + 1,
              !.pc = "loop"]

\* analyze_all_services, lines 146-156: the result is stored and counted
record_result(r, result) ==
    [r EXCEPT !.services = dict_set(@, services[r.i], result),
              !.passed_count = IF result.status = "PASSED" THEN @ + 1 ELSE @,
              !.total_coverage = IF result.status = "PASSED"
                                   THEN float_add(@, to_float(result.coverage)) ELSE @,
              !.failed_count = IF result.status = "PASSED" THEN @ ELSE @ + 1,
              !.i = @ + 1,
              !.pc = "loop"]

\* analyze_all_services, lines 133-143: the loop head; a missing directory is skipped
RepNextService ==
    /\ prog = "reporter"
    /\ rep.pc = "loop"
    /\ rep.i <= NumServices
    /\ \E present \in BOOLEAN :
          rep' = [rep EXCEPT !.exists = dict_set(@, rep.i, present),
                             !.pc = IF present THEN "tests" ELSE "loop",
                             !.i = IF present THEN @ ELSE @ + 1]
    /\ UNCHANGED <<prog, prs, ana, sys, smp, alg>>

\* get_service_coverage, lines 64-73: go test
RepRunTests ==
    /\ prog = "reporter"
    /\ rep.pc = "tests"
    /\ \E outcome \in TestOutcomes :
          LET ret == run_command(outcome)
              called == [rep EXCEPT !.outcome = outcome, !.ret = ret,
                                    !.invoked[rep.i] = @ + 1,
                                    !.tests = dict_set(@, rep.i, outcome)]
          IN  rep' = IF ret[1] # 0
                     THEN record_result(called,
                             [status |-> "FAILED", coverage |-> 0,
                              error |-> IF ~IsEmptyText(ret[3]) THEN ret[3] ELSE ret[2]])
                     ELSE [called EXCEPT !.pc = "cover"]
    /\ UNCHANGED <<prog, prs, ana, sys, smp, alg>>

\* get_service_coverage, lines 75-106: go tool cover -func and the parse of its output
RepRunCover ==
    /\ prog = "reporter"
    /\ rep.pc = "cover"
    /\ \E outcome \in CoverOutcomes :
          LET ret == run_command(outcome)
              called == [rep EXCEPT !.outcome = outcome, !.ret = ret,
                                    !.invoked[rep.i] = @ + 1,
                                    !.cover = dict_set(@, rep.i, outcome)]
          IN  rep' = IF ret[1] # 0
                     THEN record_result(called,
                             [status |-> "PASSED", coverage |-> 0,
                              details |-> "No coverage data"])
                     ELSE LET parsed == parse_func_output(ret[2])
                          IN  [called EXCEPT !.pc = "html",
                                             !.coverage = parsed.total_coverage,
                                             !.function_coverage = parsed.function_coverage]
    /\ UNCHANGED <<prog, prs, ana, sys, smp, alg>>

\* get_service_coverage, lines 108-118: the HTML report; its outcome is not looked at
RepRunHtml ==
    /\ prog = "reporter"
    /\ rep.pc = "html"
    /\ \E outcome \in HtmlOutcomes :
          LET ret == run_command(outcome)
              called == [rep EXCEPT !.outcome = outcome, !.ret = ret,
                                    !.invoked[rep.i] = @ + 1,
                                    !.function_coverage = <<>>, !.coverage = 0]
          IN  rep' = record_result(called,
                        [status |-> "PASSED", coverage |-> rep.coverage,
                         function_coverage |-> rep.function_coverage,
                         html_report |-> "coverage.html"])
    /\ UNCHANGED <<prog, prs, ana, sys, smp, alg>>

\* round(num / den, 0): the nearest integer, a tie to the even one
round_div(num, den) ==
    LET q == num \div den
        r == num % den
    IN  IF 2 * r < den THEN q
        ELSE IF 2 * r > den THEN q + 1
        ELSE IF q % 2 = 0 THEN q ELSE q + 1

\* the summary counting every configured unit, the missing ones included
summary_of_configured(passed_count, failed_count, total_coverage) ==
    [total_services |-> NumServices,
     passed |-> passed_count,
     failed |-> failed_count,
     average_coverage |->
        IF passed_count > 0 THEN round2(float_div(total_coverage, passed_count)) ELSE 0,
     pass_rate |-> round_div(passed_count * 10000, NumServices)]

\* analyze_all_services, lines 158-168; average_coverage and pass_rate are
\* rounded to two decimals, kept here in hundredths of a percent.  The pass
\* rate of at most ten units is no tie of round(), so its float quotient
\* rounds as the exact one does.
summary_of(passed_count, failed_count, total_coverage) ==
    LET total_services == passed_count + failed_count
    IN  [total_services |-> total_services,
         passed |-> passed_count,
         failed |-> failed_count,
         average_coverage |->
            IF passed_count > 0 THEN round2(float_div(total_coverage, passed_count)) ELSE 0,
         pass_rate |->
            IF total_services > 0 THEN round_div(passed_count * 10000, total_services) ELSE 0]

RepSummary ==
    /\ prog = "reporter"
    /\ rep.pc = "loop"
    /\ rep.i > NumServices
    /\ rep' = [rep EXCEPT !.summary =
                             summary_of(rep.passed_count, rep.failed_count, rep.total_coverage),
                          !.pc = "save"]
    /\ UNCHANGED <<prog, prs, ana, sys, smp, alg>>

\* generate_html_report, lines 316-327: the class of the coverage bar of a unit
coverage_class(coverage) ==
    IF coverage >= 900 THEN "coverage-excellent"
    ELSE IF coverage >= 800 THEN "coverage-good"
    ELSE IF coverage >= 700 THEN "coverage-fair"
    ELSE "coverage-poor"

\* generate_html_report, lines 316-318: one bar for each stored unit
html_classes(results) ==
    [name \in DOMAIN results |->
        coverage_class(IF "coverage" \in DOMAIN results[name]
                       THEN results[name].coverage ELSE 0)]

\* the exit status tolerating one failed unit
RepSaveAndExit_one_allowed ==
    /\ prog = "reporter"
    /\ rep.pc = "save"
    /\ \E written \in BOOLEAN :
          rep' = [rep EXCEPT !.saved = written,
                             !.html = IF written THEN html_classes(rep.services) ELSE @,
                             !.fault = IF written THEN "none" ELSE "OSError",
                             !.exit_status =
                                IF ~written THEN 1
                                ELSE IF rep.summary.failed > 1 THEN 1 ELSE 0,
                             !.pc = "done"]
    /\ UNCHANGED <<prog, prs, ana, sys, smp, alg>>

\* main, lines 386-392, with save_reports (lines 355-375): a report that cannot
\* be written raises out of main, and the interpreter exits with status 1
RepSaveAndExit ==
    /\ prog = "reporter"
    /\ rep.pc = "save"
    /\ \E written \in BOOLEAN :
          rep' = [rep EXCEPT !.saved = written,
                             !.html = IF written THEN html_classes(rep.services) ELSE @,
                             !.fault = IF written THEN "none" ELSE "OSError",
                             !.exit_status =
                                IF ~written THEN 1
                                ELSE IF rep.summary.failed > 0 THEN 1 ELSE 0,
                             !.pc = "done"]
    /\ UNCHANGED <<prog, prs, ana, sys, smp, alg>>

(***************************************************************************)
(* SystemTester (test_all_systems.py)                                      *)
(***************************************************************************)
\* test_all_services, lines 105-115
system_services == <<"tinyurl", "newsfeed", "loadbalancer", "typeahead", "messaging",
                     "dns", "webcrawler", "googledocs", "quora">>

\* the model runs sample-app and the first NumSystemServices entries of the list
NumSystemServices == 2

coverage_marker == <<"c", "o", "v", "e", "r", "a", "g", "e", ":">>

\* "go test -v -coverprofile" outputs: one package, two packages, a package
\* without a coverage line, a coverage line that holds no number

SystemOutcomes ==
    LET texts == {<< <<"o", "k", "\t", "p", "k", "g", "\t", "c", "o", "v", "e", "r", "a", "g", "e", ":", " ", "8", "0", ".", "0", "%", " ", "o", "f", " ", "s", "t", "a", "t", "e", "m", "e", "n", "t", "s">> >>,
                 << <<"o", "k", "\t", "a", "\t", "c", "o", "v", "e", "r", "a", "g", "e", ":", " ", "6", "0", ".", "0", "%", " ", "o", "f", " ", "s", "t", "a", "t", "e", "m", "e", "n", "t", "s">>, <<"o", "k", "\t", "b", "\t", "c", "o", "v", "e", "r", "a", "g", "e", ":", " ", "1", "0", "0", ".", "0", "%", " ", "o", "f", " ", "s", "t", "a", "t", "e", "m", "e", "n", "t", "s">> >>,
                 << <<"o", "k", "\t", "p", "k", "g", "\t", "[", "n", "o", " ", "t", "e", "s", "t", " ", "f", "i", "l", "e", "s", "]">> >>,
                 << <<"o", "k", "\t", "p", "k", "g", "\t", "c", "o", "v", "e", "r", "a", "g", "e", ":", " ", "n", "/", "a", "%", " ", "o", "f", " ", "s", "t", "a", "t", "e", "m", "e", "n", "t", "s">> >>}
    IN  {Exit(0, text, EmptyText) : text \in texts}
        \cup {Exit(1, EmptyText, ToolTexts.fail), TimedOut, LaunchFailed}

\* run_command, lines 20-34
system_run_command(outcome) ==
    IF outcome.kind = "exit" THEN <<outcome.returncode, outcome.stdout, outcome.stderr>>
    ELSE IF outcome.kind = "timeout" THEN <<-1, EmptyText, ToolTexts.timed_out>>
    ELSE <<-1, EmptyText, ToolTexts.os_error>>

\* lines 59-65: one line that holds "coverage:" and "%"; the value, or 0 when
\* float() raises
coverage_of_line(line) ==
    LET coverage_str == strip(split(split(line, coverage_marker)[2], <<PCT>>)[1])
    IN  IF FloatOk(coverage_str) THEN FloatVal(coverage_str) ELSE 0

\* lines 57-65: the loop over the lines of stdout; the last matching line stays
RECURSIVE extract_coverage(_, _)
extract_coverage(result, lines) ==
    IF lines = <<>> THEN result
    ELSE LET line == Head(lines)
             next == IF contains(line, coverage_marker) /\ contains(line, <<PCT>>)
                     THEN dict_set(result, "coverage", coverage_of_line(line))
                     ELSE result
         IN  extract_coverage(next, Tail(lines))

\* test_service lines 49-71 and test_sample_app lines 80-101: the result of one go test
test_result(ret) ==
    LET result == [exit_code |-> ret[1], stdout |-> ret[2], stderr |-> ret[3],
                   success |-> ret[1] = 0]
    IN  IF ret[1] = 0 THEN extract_coverage(result, ret[2])
        ELSE dict_set(result, "coverage", 0)

\* r.get("coverage", 0)
get_coverage(r) == IF "coverage" \in DOMAIN r THEN r["coverage"] ELSE 0

\* r.get("success", False)
get_success(r) == IF "success" \in DOMAIN r THEN r["success"] ELSE FALSE

RECURSIVE sum_coverage(_, _)
sum_coverage(results, keys) ==
    IF keys = {} THEN 0
    ELSE LET k == CHOOSE x \in keys : TRUE
         IN  get_coverage(results[k]) + sum_coverage(results, keys \ {k})

\* test_all_services, lines 128-140; average_coverage is the float quotient,
\* kept as the fraction num / den
system_summary(results) ==
    LET total_services == NumSystemServices + 1
        passed_services == Cardinality({k \in DOMAIN results : get_success(results[k])})
        total_coverage == sum_coverage(results, DOMAIN results)
    IN  [total_services |-> total_services,
         passed_services |-> passed_services,
         failed_services |-> total_services - passed_services,
         average_coverage |-> [num |-> total_coverage, den |-> total_services],
         overall_status |-> IF passed_services = total_services THEN "PASSED" ELSE "FAILED"]

SysInit ==
    [pc |-> "sample", i |-> 1, results |-> EmptyDict, summary |-> EmptyDict,
     outcome |-> NoCall, ret |-> <<0, EmptyText, EmptyText>>,
     exists |-> [u \in {} |-> TRUE], invoked |-> [u \in {} |-> 0],
     tests |-> [u \in {} |-> NoCall],
     breakdown |-> EmptyDict,
     saved |-> FALSE, fault |-> "none", exit_status |-> 0]

\* test_all_services line 122 with test_sample_app, lines 73-101: no look at the
\* directory; a missing one makes the launch fail inside run_command
SysTestSampleApp ==
    /\ prog = "systems"
    /\ sys.pc = "sample"
    /\ \E outcome \in SystemOutcomes :
          LET ret == system_run_command(outcome)
          IN  sys' = [sys EXCEPT !.outcome = outcome, !.ret = ret,
                                 !.invoked = dict_set(@, "sample-app", 1),
                                 !.tests = dict_set(@, "sample-app", outcome),
                                 !.results = dict_set(@, "sample-app", test_result(ret)),
                                 !.pc = "service"]
    /\ UNCHANGED <<prog, prs, ana, rep, smp, alg>>

\* test_all_services lines 125-126 with test_service, lines 36-71
SysTestService ==
    /\ prog = "systems"
    /\ sys.pc = "service"
    /\ sys.i <= NumSystemServices
    /\ LET service == system_services[sys.i]
       IN  \E present \in BOOLEAN :
              IF ~present
              THEN sys' = [sys EXCEPT !.exists = dict_set(@, service, FALSE),
                                      !.invoked = dict_set(@, service, 0),
                                      !.results = dict_set(@, service,
                                          [success |-> FALSE, coverage |-> 0,
                                           error |-> "Directory not found"]),
                                      !.i = @ + 1]
              ELSE \E outcome \in SystemOutcomes :
                     LET ret == system_run_command(outcome)
                     IN  sys' = [sys EXCEPT !.exists = dict_set(@, service, TRUE),
                                            !.outcome = outcome, !.ret = ret,
                                            !.invoked = dict_set(@, service, 1),
                                            !.tests = dict_set(@, service, outcome),
                                            !.results = dict_set(@, service, test_result(ret)),
                                            !.i = @ + 1]
    /\ UNCHANGED <<prog, prs, ana, rep, smp, alg>>

\* test_all_services, lines 128-142
SysSummary ==
    /\ prog = "systems"
    /\ sys.pc = "service"
    /\ sys.i > NumSystemServices
    /\ sys' = [sys EXCEPT !.summary = system_summary(sys.results), !.pc = "save"]
    /\ UNCHANGED <<prog, prs, ana, rep, smp, alg>>

\* print_summary, lines 178-190: the list of the coverage breakdown a unit is put on
coverage_breakdown(coverage) ==
    IF coverage >= 800 THEN "excellent"
    ELSE IF coverage >= 700 THEN "good"
    ELSE IF coverage >= 600 THEN "acceptable"
    ELSE "needs_improvement"

\* main, lines 224-230, with print_summary (lines 144-212) and save_results
\* (lines 214-219): results that cannot be written raise out of main, and the
\* interpreter exits with status 1
SysSaveAndExit ==
    /\ prog = "systems"
    /\ sys.pc = "save"
    /\ \E written \in BOOLEAN :
          sys' = [sys EXCEPT !.saved = written,
                             !.breakdown = [name \in DOMAIN sys.results |->
                                               coverage_breakdown(get_coverage(sys.results[name]))],
                             !.fault = IF written THEN "none" ELSE "OSError",
                             !.exit_status =
                                IF ~written THEN 1
                                ELSE IF sys.summary.overall_status = "PASSED" THEN 0 ELSE 1,
                             !.pc = "done"]
    /\ UNCHANGED <<prog, prs, ana, rep, smp, alg>>

(***************************************************************************)
(* TestOrchestrator of the sample-app (test_comprehensive.py)              *)
(***************************************************************************)
\* an operator abort (SIGINT) while the subprocess runs: KeyboardInterrupt
Interrupted == [kind |-> "interrupt"]

\* run_command, lines 77-108: (success, stdout, stderr).  KeyboardInterrupt is
\* no Exception and is not caught here: the call does not return then.
sample_run_command(outcome) ==
    IF outcome.kind = "exit" THEN <<outcome.returncode = 0, outcome.stdout, outcome.stderr>>
    ELSE IF outcome.kind = "timeout" THEN <<FALSE, EmptyText, ToolTexts.timeout_word>>
    ELSE <<FALSE, EmptyText, ToolTexts.os_error>>

\* the flags of main, lines 544-550
FlagNames == {"unit", "integration", "benchmark", "coverage", "static", "report"}

Args(all, selected) ==
    [all |-> all, unit |-> "unit" \in selected, integration |-> "integration" \in selected,
     benchmark |-> "benchmark" \in selected, coverage |-> "coverage" \in selected,
     static |-> "static" \in selected, report |-> "report" \in selected]

\* the command lines the model runs: no flag, --all, or any flags except --all
CommandLines == {Args(FALSE, selected) : selected \in SUBSET FlagNames} \cup {Args(TRUE, {})}

\* main, lines 564-585: the order of the phases
Phases == <<"static", "unit", "integration", "benchmark", "coverage", "report">>

requested(args, phase) == args.all \/ args[phase]

\* stdout.count(sub) over the lines of a text
count_in_line(line, sub) ==
    Cardinality({i \in 1..Len(line) : i + Len(sub) - 1 <= Len(line)
                                      /\ SubSeq(line, i, i + Len(sub) - 1) = sub})

RECURSIVE count(_, _)
count(text, sub) ==
    IF text = <<>> THEN 0 ELSE count_in_line(Head(text), sub) + count(Tail(text), sub)

GoTestOutcomes == {Exit(0, ToolTexts.passed_tests, EmptyText), Exit(1, ToolTexts.failed_tests, ToolTexts.fail),
                   TimedOut, LaunchFailed, Interrupted}
GofmtOutcomes == {Exit(0, EmptyText, EmptyText), Exit(0, ToolTexts.unformatted, EmptyText),
                  LaunchFailed, Interrupted}
ToolOutcomes == {Exit(0, EmptyText, EmptyText), Exit(1, EmptyText, ToolTexts.fail),
                 TimedOut, Interrupted}
CoverFuncOutcomes ==
    LET texts == {<<TotalLine(Percents.p100)>>,
                 <<EntryLine(Words.file_a, Words.f, Percents.p60), TotalLine(Percents.p80)>>,
                 <<EntryLine(Words.file_a, Words.f, Percents.p80)>>,
                 <<TotalLine(Percents.pbad)>>}
    IN  {Exit(0, text, EmptyText) : text \in texts}
        \cup {Exit(1, EmptyText, ToolTexts.no_profile), TimedOut, Interrupted}

\* generate_coverage_report, lines 202-209: every '%' part of every line that
\* holds "total:" in lower case goes through float(); the last one stays
RECURSIVE percent_parts(_, _)
percent_parts(acc, parts) ==
    IF parts = <<>> THEN acc
    ELSE IF acc.raised THEN acc
    ELSE IF contains(Head(parts), <<PCT>>)
    THEN IF FloatOk(remove_char(Head(parts), PCT))
         THEN percent_parts([acc EXCEPT !.coverage_pct = FloatVal(remove_char(Head(parts), PCT))],
                            Tail(parts))
         ELSE [acc EXCEPT !.raised = TRUE]
    ELSE percent_parts(acc, Tail(parts))

RECURSIVE total_lines(_, _)
total_lines(acc, lines) ==
    IF lines = <<>> \/ acc.raised THEN acc
    ELSE IF contains(lower(Head(lines)), total_marker)
    THEN total_lines(percent_parts(acc, split_ws(Head(lines))), Tail(lines))
    ELSE total_lines(acc, Tail(lines))

\* raised: float() raised ValueError, which leaves generate_coverage_report
parse_total(func_output) == total_lines([coverage_pct |-> 0, raised |-> FALSE], func_output)

SmpInit(args, stale_profile) ==
    [pc |-> "args", args |-> args, overall_success |-> TRUE,
     coverage_file |-> stale_profile,
     tests |-> EmptyDict, coverage |-> EmptyDict, benchmarks |-> EmptyDict,
     static_analysis |-> EmptyDict,
     started |-> <<>>, outcome |-> NoCall, ret |-> <<TRUE, EmptyText, EmptyText>>,
     html_report |-> FALSE, saved |-> FALSE, summary_printed |-> FALSE,
     final_success |-> FALSE, fault |-> "none", exit_status |-> 0]

\* the interrupt caught where the command is run, as a failed command
main_except_absorbed(s, outcome, fault) ==
    IF fault = "KeyboardInterrupt"
    THEN [s EXCEPT !.outcome = outcome, !.overall_success = FALSE]
    ELSE [s EXCEPT !.outcome = outcome, !.fault = fault, !.exit_status = 1, !.pc = "done"]

\* main, lines 594-601: an exception ends the run
main_except(s, outcome, fault) ==
    [s EXCEPT !.outcome = outcome, !.fault = fault,
              !.exit_status = IF fault = "KeyboardInterrupt" THEN 130 ELSE 1,
              !.pc = "done"]

begin(s, phase) ==
    IF s.started # <<>> /\ s.started[Len(s.started)] = phase THEN s.started
    ELSE Append(s.started, phase)

\* main, lines 555-557
SmpArgs ==
    /\ prog = "sample"
    /\ smp.pc = "args"
    /\ smp' = [smp EXCEPT !.args.all =
                             \/ smp.args.all
                             \/ ~\E f \in FlagNames : smp.args[f],
                          !.pc = "static"]
    /\ UNCHANGED <<prog, prs, ana, rep, sys, alg>>

next_phase(phase) ==
    CASE phase = "static" -> "unit"
      [] phase = "unit" -> "integration"
      [] phase = "integration" -> "benchmark"
      [] phase = "benchmark" -> "coverage"
      [] phase = "coverage" -> "report"
      [] phase = "report" -> "save"

\* a phase whose flag is not set is passed over
SmpSkip ==
    /\ prog = "sample"
    /\ smp.pc \in {"static", "unit", "integration", "benchmark", "coverage", "report"}
    /\ ~requested(smp.args, smp.pc)
    /\ smp' = [smp EXCEPT !.pc = next_phase(smp.pc)]
    /\ UNCHANGED <<prog, prs, ana, rep, sys, alg>>

\* run_static_analysis, lines 234-240: gofmt -l; success is an empty stdout
SmpStaticFmt ==
    /\ prog = "sample"
    /\ smp.pc = "static"
    /\ requested(smp.args, "static")
    /\ \E outcome \in GofmtOutcomes :
          IF outcome.kind = "interrupt"
          THEN smp' = main_except([smp EXCEPT !.started = begin(smp, "static")],
                                  outcome, "KeyboardInterrupt")
          ELSE LET ret == sample_run_command(outcome)
               IN  smp' = [smp EXCEPT !.started = begin(smp, "static"),
                                      !.outcome = outcome, !.ret = ret,
                                      !.static_analysis =
                                          dict_set(EmptyDict, "fmt", strip_lines(ret[2]) = EmptyText),
                                      !.pc = "static_vet"]
    /\ UNCHANGED <<prog, prs, ana, rep, sys, alg>>

\* run_static_analysis, lines 242-249: go vet
SmpStaticVet ==
    /\ prog = "sample"
    /\ smp.pc = "static_vet"
    /\ \E outcome \in ToolOutcomes :
          IF outcome.kind = "interrupt"
          THEN smp' = main_except(smp, outcome, "KeyboardInterrupt")
          ELSE LET ret == sample_run_command(outcome)
               IN  smp' = [smp EXCEPT !.outcome = outcome, !.ret = ret,
                                      !.static_analysis = dict_set(@, "vet", ret[1]),
                                      !.pc = "static_mod"]
    /\ UNCHANGED <<prog, prs, ana, rep, sys, alg>>

\* run_static_analysis, lines 251-267, and main, lines 565-566: go mod verify
SmpStaticMod ==
    /\ prog = "sample"
    /\ smp.pc = "static_mod"
    /\ \E outcome \in ToolOutcomes :
          IF outcome.kind = "interrupt"
          THEN smp' = main_except(smp, outcome, "KeyboardInterrupt")
          ELSE LET ret == sample_run_command(outcome)
                   results == dict_set(smp.static_analysis, "mod_verify", ret[1])
                   all_passed == \A check \in DOMAIN results : results[check]
               IN  smp' = [smp EXCEPT !.outcome = outcome, !.ret = ret,
                                      !.static_analysis = results,
                                      !.overall_success = @ /\ all_passed,
                                      !.pc = "unit"]
    /\ UNCHANGED <<prog, prs, ana, rep, sys, alg>>

\* the result run_unit_tests and run_integration_tests store, lines 118-128, 145-154
tests_result(ret) ==
    [success |-> ret[1],
     passed |-> count(ret[2], <<"-", "-", "-", " ", "P", "A", "S", "S", ":">>),
     failed |-> count(ret[2], <<"-", "-", "-", " ", "F", "A", "I", "L", ":">>)]

\* failing unit tests ending the phases: the run goes on to save its results
SmpUnit_stop_on_failure ==
    /\ prog = "sample"
    /\ smp.pc = "unit"
    /\ requested(smp.args, "unit")
    /\ \E outcome \in GoTestOutcomes, profile_written \in BOOLEAN :
          /\ outcome.kind = "exit" /\ outcome.returncode = 0 => profile_written
          /\ outcome.kind \in {"timeout", "oserror", "interrupt"} => ~profile_written
          /\ IF outcome.kind = "interrupt"
             THEN smp' = main_except([smp EXCEPT !.started = begin(smp, "unit")],
                                     outcome, "KeyboardInterrupt")
             ELSE LET ret == sample_run_command(outcome)
                  IN  smp' = [smp EXCEPT !.started = begin(smp, "unit"),
                                         !.outcome = outcome, !.ret = ret,
                                         !.coverage_file = @ \/ profile_written,
                                         !.tests = dict_set(@, "unit", tests_result(ret)),
                                         !.overall_success = @ /\ ret[1],
                                         !.pc = IF ret[1] THEN "integration" ELSE "save"]
    /\ UNCHANGED <<prog, prs, ana, rep, sys, alg>>

\* run_unit_tests, lines 110-135, and main, lines 568-570.  go test writes the
\* coverage profile when the tests ran; a run that failed may have stopped before.
SmpUnit ==
    /\ prog = "sample"
    /\ smp.pc = "unit"
    /\ requested(smp.args, "unit")
    /\ \E outcome \in GoTestOutcomes, profile_written \in BOOLEAN :
          /\ outcome.kind = "exit" /\ outcome.returncode = 0 => profile_written
          /\ outcome.kind \in {"timeout", "oserror", "interrupt"} => ~profile_written
          /\ IF outcome.kind = "interrupt"
             THEN smp' = main_except([smp EXCEPT !.started = begin(smp, "unit")],
                                     outcome, "KeyboardInterrupt")
             ELSE LET ret == sample_run_command(outcome)
                  IN  smp' = [smp EXCEPT !.started = begin(smp, "unit"),
                                         !.outcome = outcome, !.ret = ret,
                                         !.coverage_file = @ \/ profile_written,
                                         !.tests = dict_set(@, "unit", tests_result(ret)),
                                         !.overall_success = @ /\ ret[1],
                                         !.pc = "integration"]
    /\ UNCHANGED <<prog, prs, ana, rep, sys, alg>>

\* run_integration_tests, lines 137-161, and main, lines 572-574
SmpIntegration ==
    /\ prog = "sample"
    /\ smp.pc = "integration"
    /\ requested(smp.args, "integration")
    /\ \E outcome \in GoTestOutcomes :
          IF outcome.kind = "interrupt"
          THEN smp' = main_except([smp EXCEPT !.started = begin(smp, "integration")],
                                  outcome, "KeyboardInterrupt")
          ELSE LET ret == sample_run_command(outcome)
               IN  smp' = [smp EXCEPT !.started = begin(smp, "integration"),
                                      !.outcome = outcome, !.ret = ret,
                                      !.tests = dict_set(@, "integration", tests_result(ret)),
                                      !.overall_success = @ /\ ret[1],
                                      !.pc = "benchmark"]
    /\ UNCHANGED <<prog, prs, ana, rep, sys, alg>>

\* run_benchmark_tests, lines 163-183, and main, lines 576-578
SmpBenchmark ==
    /\ prog = "sample"
    /\ smp.pc = "benchmark"
    /\ requested(smp.args, "benchmark")
    /\ \E outcome \in ToolOutcomes :
          IF outcome.kind = "interrupt"
          THEN smp' = main_except([smp EXCEPT !.started = begin(smp, "benchmark")],
                                  outcome, "KeyboardInterrupt")
          ELSE LET ret == sample_run_command(outcome)
               IN  smp' = [smp EXCEPT !.started = begin(smp, "benchmark"),
                                      !.outcome = outcome, !.ret = ret,
                                      !.benchmarks = dict_set(EmptyDict, "success", ret[1]),
                                      !.overall_success = @ /\ ret[1],
                                      !.pc = "coverage"]
    /\ UNCHANGED <<prog, prs, ana, rep, sys, alg>>

\* generate_coverage_report, lines 185-191, and main, lines 580-582: without a
\* coverage profile nothing is run and the phase has failed
SmpCoverageNoProfile ==
    /\ prog = "sample"
    /\ smp.pc = "coverage"
    /\ requested(smp.args, "coverage")
    /\ ~smp.coverage_file
    /\ smp' = [smp EXCEPT !.started = begin(smp, "coverage"),
                          !.overall_success = FALSE,
                          !.pc = "report"]
    /\ UNCHANGED <<prog, prs, ana, rep, sys, alg>>

\* generate_coverage_report, lines 193-196: go tool cover -html
SmpCoverageHtml ==
    /\ prog = "sample"
    /\ smp.pc = "coverage"
    /\ requested(smp.args, "coverage")
    /\ smp.coverage_file
    /\ \E outcome \in ToolOutcomes :
          IF outcome.kind = "interrupt"
          THEN smp' = main_except([smp EXCEPT !.started = begin(smp, "coverage")],
                                  outcome, "KeyboardInterrupt")
          ELSE smp' = [smp EXCEPT !.started = begin(smp, "coverage"),
                                  !.outcome = outcome, !.ret = sample_run_command(outcome),
                                  !.pc = "coverage_func"]
    /\ UNCHANGED <<prog, prs, ana, rep, sys, alg>>

\* generate_coverage_report, lines 198-226, and main, lines 580-582: go tool
\* cover -func and the parse of its total
SmpCoverageFunc ==
    /\ prog = "sample"
    /\ smp.pc = "coverage_func"
    /\ \E outcome \in CoverFuncOutcomes :
          IF outcome.kind = "interrupt"
          THEN smp' = main_except(smp, outcome, "KeyboardInterrupt")
          ELSE LET ret == sample_run_command(outcome)
                   parsed == parse_total(ret[2])
                   called == [smp EXCEPT !.outcome = outcome, !.ret = ret]
               IN  smp' = IF parsed.raised
                          THEN main_except(called, outcome, "ValueError")
                          ELSE [called EXCEPT
                                   !.coverage = dict_set(EmptyDict, "percentage", parsed.coverage_pct),
                                   !.overall_success = @ /\ parsed.coverage_pct >= 1000,
                                   !.pc = "report"]
    /\ UNCHANGED <<prog, prs, ana, rep, sys, alg>>

\* generate_html_report, lines 269-462, and main, lines 584-585
SmpReport ==
    /\ prog = "sample"
    /\ smp.pc = "report"
    /\ requested(smp.args, "report")
    /\ \E written \in BOOLEAN :
          smp' = IF written
                 THEN [smp EXCEPT !.started = begin(smp, "report"),
                                  !.html_report = TRUE, !.pc = "save"]
                 ELSE main_except([smp EXCEPT !.started = begin(smp, "report")],
                                  smp.outcome, "OSError")
    /\ UNCHANGED <<prog, prs, ana, rep, sys, alg>>

\* save_results_json, lines 488-493, and main, line 588
SmpSave ==
    /\ prog = "sample"
    /\ smp.pc = "save"
    /\ \E written \in BOOLEAN :
          smp' = IF written
                 THEN [smp EXCEPT !.saved = TRUE, !.pc = "summary"]
                 ELSE main_except(smp, smp.outcome, "OSError")
    /\ UNCHANGED <<prog, prs, ana, rep, sys, alg>>

\* print_summary, lines 526-539: unit.get('success', False) and coverage_pct >= 100
print_summary(s) ==
    /\ "unit" \in DOMAIN s.tests /\ s.tests["unit"].success
    /\ (IF "percentage" \in DOMAIN s.coverage THEN s.coverage["percentage"] ELSE 0) >= 1000

\* the summary printed before the results are saved
SmpSummaryAndExit_unsaved ==
    /\ prog = "sample"
    /\ smp.pc = "save"
    /\ LET final_success == print_summary(smp)
       IN  smp' = [smp EXCEPT !.summary_printed = TRUE,
                              !.final_success = final_success,
                              !.exit_status = IF final_success /\ smp.overall_success THEN 0 ELSE 1,
                              !.pc = "done"]
    /\ UNCHANGED <<prog, prs, ana, rep, sys, alg>>

\* main, lines 589-592
SmpSummaryAndExit ==
    /\ prog = "sample"
    /\ smp.pc = "summary"
    /\ LET final_success == print_summary(smp)
       IN  smp' = [smp EXCEPT !.summary_printed = TRUE,
                              !.final_success = final_success,
                              !.exit_status = IF final_success /\ smp.overall_success THEN 0 ELSE 1,
                              !.pc = "done"]
    /\ UNCHANGED <<prog, prs, ana, rep, sys, alg>>

(***************************************************************************)
(* TestOrchestrator of algorithm-visualization                             *)
(* (algorithm-visualization/test_comprehensive.py)                         *)
(***************************************************************************)
\* run_command, lines 28-42; KeyboardInterrupt is not caught here either
alg_run_command(outcome) ==
    IF outcome.kind = "exit" THEN <<outcome.returncode, outcome.stdout, outcome.stderr>>
    ELSE IF outcome.kind = "timeout" THEN <<-1, EmptyText, ToolTexts.timed_out>>
    ELSE <<-1, EmptyText, ToolTexts.os_error>>

\* run_all_tests, lines 236-240 and 251
test_paths == <<"unit", "integration", "performance">>
benchmark_paths == <<"unit", "performance">>

AlgOutcomes == {Exit(0, ToolTexts.ok, EmptyText), Exit(1, EmptyText, ToolTexts.fail),
                TimedOut, LaunchFailed, Interrupted}
AlgCoverOutcomes ==
    {Exit(0, <<EntryLine(Words.file_a, Words.f, Percents.p60), join(<<total_marker, Words.statements, Percents.p80>>, <<TAB>>)>>,
          EmptyText),
     Exit(0, <<TotalLine(Percents.p80)>>, EmptyText),
     Exit(1, EmptyText, ToolTexts.no_profile),
     Interrupted}

\* run_go_tests, lines 58-66: the first line that holds "total:" decides
RECURSIVE first_total(_)
first_total(lines) ==
    IF lines = <<>> THEN 0
    ELSE IF contains(Head(lines), total_marker)
    THEN LET parts == split(Head(lines), <<TAB>>)
         IN  IF Len(parts) >= 3 /\ FloatOk(remove_char(parts[3], PCT))
             THEN FloatVal(remove_char(parts[3], PCT))
             ELSE 0
    ELSE first_total(Tail(lines))

\* generate_coverage_report, lines 190-211: the total of the function report
RECURSIVE report_total(_, _)
report_total(total_coverage, lines) ==
    IF lines = <<>> THEN total_coverage
    ELSE LET line == Head(lines)
             parts == split(line, <<TAB>>)
         IN  IF /\ strip(line) # <<>>
                /\ Len(parts) >= 3
                /\ contains(line, total_marker)
                /\ FloatOk(remove_char(parts[3], PCT))
             THEN report_total(FloatVal(remove_char(parts[3], PCT)), Tail(lines))
             ELSE report_total(total_coverage, Tail(lines))

AlgInit(go_mod, dirs) ==
    [pc |-> "setup", go_mod |-> go_mod, dirs |-> dirs, k |-> 1,
     tests |-> EmptyDict, benchmarks |-> EmptyDict, race_tests |-> EmptyDict,
     static_analysis |-> EmptyDict, coverage |-> EmptyDict, summary |-> EmptyDict,
     error |-> FALSE, started |-> <<>>, outcome |-> NoCall,
     ret |-> <<0, EmptyText, EmptyText>>,
     summary_printed |-> FALSE, saved |-> FALSE, fault |-> "none", exit_status |-> 0]

\* main, lines 361-366: an exception ends the run with status 1
alg_except(s, outcome, fault) ==
    [s EXCEPT !.outcome = outcome, !.fault = fault, !.exit_status = 1, !.pc = "done"]

\* run_all_tests, lines 222-224, and main, lines 346-348
AlgCheckGoMod ==
    /\ prog = "algviz"
    /\ alg.pc = "setup"
    /\ alg' = IF alg.go_mod THEN [alg EXCEPT !.pc = "tidy"]
              ELSE [alg EXCEPT !.error = TRUE, !.exit_status = 1, !.pc = "done"]
    /\ UNCHANGED <<prog, prs, ana, rep, sys, smp>>

\* the tests are run whatever go mod tidy returned
AlgModTidy_ignored ==
    /\ prog = "algviz"
    /\ alg.pc = "tidy"
    /\ \E outcome \in AlgOutcomes :
          IF outcome.kind = "interrupt"
          THEN alg' = alg_except(alg, outcome, "KeyboardInterrupt")
          ELSE alg' = [alg EXCEPT !.outcome = outcome, !.ret = alg_run_command(outcome),
                                  !.pc = "tests"]
    /\ UNCHANGED <<prog, prs, ana, rep, sys, smp>>

\* run_all_tests, lines 227-232, and main, lines 346-348: go mod tidy
AlgModTidy ==
    /\ prog = "algviz"
    /\ alg.pc = "tidy"
    /\ \E outcome \in AlgOutcomes :
          IF outcome.kind = "interrupt"
          THEN alg' = alg_except(alg, outcome, "KeyboardInterrupt")
          ELSE LET ret == alg_run_command(outcome)
                   called == [alg EXCEPT !.outcome = outcome, !.ret = ret]
               IN  alg' = IF ret[1] # 0
                          THEN [called EXCEPT !.error = TRUE, !.exit_status = 1, !.pc = "done"]
                          ELSE [called EXCEPT !.pc = "tests"]
    /\ UNCHANGED <<prog, prs, ana, rep, sys, smp>>

\* run_all_tests, lines 242-247: a suite whose directory is absent is skipped
AlgSkipTests ==
    /\ prog = "algviz"
    /\ alg.pc = "tests"
    /\ alg.k <= Len(test_paths)
    /\ test_paths[alg.k] \notin alg.dirs
    /\ alg' = [alg EXCEPT !.k = @ + 1]
    /\ UNCHANGED <<prog, prs, ana, rep, sys, smp>>

\* run_go_tests, lines 48-53 and 68-83: go test; the result is stored by
\* run_all_tests, line 245
AlgGoTest ==
    /\ prog = "algviz"
    /\ alg.pc = "tests"
    /\ alg.k <= Len(test_paths)
    /\ test_paths[alg.k] \in alg.dirs
    /\ \E outcome \in AlgOutcomes :
          LET begun == [alg EXCEPT !.started = Append(@, test_paths[alg.k])]
          IN  IF outcome.kind = "interrupt"
              THEN alg' = alg_except(begun, outcome, "KeyboardInterrupt")
              ELSE LET ret == alg_run_command(outcome)
                       called == [begun EXCEPT !.outcome = outcome, !.ret = ret]
                   IN  \E profile_exists \in BOOLEAN :
                         alg' = IF ret[1] = 0 /\ profile_exists
                                THEN [called EXCEPT !.pc = "test_cover"]
                                ELSE [called EXCEPT
                                         !.tests = dict_set(@, test_paths[alg.k],
                                                      [success |-> ret[1] = 0, coverage |-> 0]),
                                         !.k = @ + 1]
    /\ UNCHANGED <<prog, prs, ana, rep, sys, smp>>

\* run_go_tests, lines 54-83: go tool cover -func after a passing go test
AlgGoTestCover ==
    /\ prog = "algviz"
    /\ alg.pc = "test_cover"
    /\ \E outcome \in AlgCoverOutcomes :
          IF outcome.kind = "interrupt"
          THEN alg' = alg_except(alg, outcome, "KeyboardInterrupt")
          ELSE LET ret == alg_run_command(outcome)
               IN  alg' = [alg EXCEPT !.outcome = outcome, !.ret = ret,
                                      !.tests = dict_set(@, test_paths[alg.k],
                                                   [success |-> TRUE,
                                                    coverage |-> first_total(ret[2])]),
                                      !.k = @ + 1,
                                      !.pc = "tests"]
    /\ UNCHANGED <<prog, prs, ana, rep, sys, smp>>

\* run_all_tests, line 250: on to the benchmarks
AlgTestsDone ==
    /\ prog = "algviz"
    /\ alg.pc = "tests"
    /\ alg.k > Len(test_paths)
    /\ alg' = [alg EXCEPT !.k = 1, !.pc = "bench"]
    /\ UNCHANGED <<prog, prs, ana, rep, sys, smp>>

\* run_all_tests, lines 252-255, with run_benchmarks, lines 85-105
AlgBenchmark ==
    /\ prog = "algviz"
    /\ alg.pc = "bench"
    /\ IF alg.k > Len(benchmark_paths)
       THEN alg' = [alg EXCEPT !.k = 1, !.pc = "race"]
       ELSE IF benchmark_paths[alg.k] \notin alg.dirs
       THEN alg' = [alg EXCEPT !.k = @ + 1]
       ELSE \E outcome \in AlgOutcomes :
              LET begun == [alg EXCEPT !.started = Append(@, "benchmark")]
              IN  IF outcome.kind = "interrupt"
                  THEN alg' = alg_except(begun, outcome, "KeyboardInterrupt")
                  ELSE LET ret == alg_run_command(outcome)
                       IN  alg' = [begun EXCEPT !.outcome = outcome, !.ret = ret,
                                                !.benchmarks = dict_set(@, benchmark_paths[alg.k],
                                                                        [success |-> ret[1] = 0]),
                                                !.k = @ + 1]
    /\ UNCHANGED <<prog, prs, ana, rep, sys, smp>>

\* run_all_tests, lines 259-260, with run_race_tests, lines 107-127
AlgRace ==
    /\ prog = "algviz"
    /\ alg.pc = "race"
    /\ \E outcome \in AlgOutcomes :
          LET begun == [alg EXCEPT !.started = Append(@, "race")]
          IN  IF outcome.kind = "interrupt"
              THEN alg' = alg_except(begun, outcome, "KeyboardInterrupt")
              ELSE LET ret == alg_run_command(outcome)
                   IN  alg' = [begun EXCEPT !.outcome = outcome, !.ret = ret,
                                            !.race_tests = [success |-> ret[1] = 0],
                                            !.pc = "vet"]
    /\ UNCHANGED <<prog, prs, ana, rep, sys, smp>>

\* run_static_analysis, lines 136-142: go vet
AlgStaticVet ==
    /\ prog = "algviz"
    /\ alg.pc = "vet"
    /\ \E outcome \in AlgOutcomes :
          LET begun == [alg EXCEPT !.started = Append(@, "static")]
          IN  IF outcome.kind = "interrupt"
              THEN alg' = alg_except(begun, outcome, "KeyboardInterrupt")
              ELSE LET ret == alg_run_command(outcome)
                   IN  alg' = [begun EXCEPT !.outcome = outcome, !.ret = ret,
                                            !.static_analysis =
                                                dict_set(EmptyDict, "go_vet", [success |-> ret[1] = 0]),
                                            !.pc = "fmt"]
    /\ UNCHANGED <<prog, prs, ana, rep, sys, smp>>

\* run_static_analysis, lines 145-151, stored by run_all_tests, lines 264-265:
\* gofmt -l; success is an empty stdout
AlgStaticFmt ==
    /\ prog = "algviz"
    /\ alg.pc = "fmt"
    /\ \E outcome \in GofmtOutcomes :
          IF outcome.kind = "interrupt"
          THEN alg' = alg_except(alg, outcome, "KeyboardInterrupt")
          ELSE LET ret == alg_run_command(outcome)
               IN  alg' = [alg EXCEPT !.outcome = outcome, !.ret = ret,
                                      !.static_analysis =
                                          dict_set(@, "go_fmt",
                                                   [success |-> strip_lines(ret[2]) = EmptyText]),
                                      !.pc = "cov_test"]
    /\ UNCHANGED <<prog, prs, ana, rep, sys, smp>>

\* generate_coverage_report, lines 170-174, stored by run_all_tests, lines 269-270
AlgCoverageTest ==
    /\ prog = "algviz"
    /\ alg.pc = "cov_test"
    /\ \E outcome \in AlgOutcomes :
          LET begun == [alg EXCEPT !.started = Append(@, "coverage")]
          IN  IF outcome.kind = "interrupt"
              THEN alg' = alg_except(begun, outcome, "KeyboardInterrupt")
              ELSE LET ret == alg_run_command(outcome)
                       called == [begun EXCEPT !.outcome = outcome, !.ret = ret]
                   IN  alg' = IF ret[1] # 0
                              THEN [called EXCEPT !.coverage = [error |-> TRUE], !.pc = "summary"]
                              ELSE [called EXCEPT !.pc = "cov_html"]
    /\ UNCHANGED <<prog, prs, ana, rep, sys, smp>>

\* generate_coverage_report, lines 176-178: the HTML report, outcome not looked at
AlgCoverageHtml ==
    /\ prog = "algviz"
    /\ alg.pc = "cov_html"
    /\ \E outcome \in ToolOutcomes :
          IF outcome.kind = "interrupt"
          THEN alg' = alg_except(alg, outcome, "KeyboardInterrupt")
          ELSE alg' = [alg EXCEPT !.outcome = outcome, !.ret = alg_run_command(outcome),
                                  !.pc = "cov_func"]
    /\ UNCHANGED <<prog, prs, ana, rep, sys, smp>>

\* generate_coverage_report, lines 180-214, stored by run_all_tests, lines 269-270
AlgCoverageFunc ==
    /\ prog = "algviz"
    /\ alg.pc = "cov_func"
    /\ \E outcome \in AlgCoverOutcomes :
          IF outcome.kind = "interrupt"
          THEN alg' = alg_except(alg, outcome, "KeyboardInterrupt")
          ELSE LET ret == alg_run_command(outcome)
               IN  alg' = [alg EXCEPT !.outcome = outcome, !.ret = ret,
                                      !.coverage = [total_coverage |-> report_total(0, ret[2])],
                                      !.pc = "summary"]
    /\ UNCHANGED <<prog, prs, ana, rep, sys, smp>>

\* generate_summary, lines 278-295; success_rate is passed / total * 100, kept
\* as the fraction num / den
generate_summary(s) ==
    LET total_tests == Cardinality(DOMAIN s.tests)
        passed_tests == Cardinality({t \in DOMAIN s.tests : s.tests[t].success})
    IN  [total_tests |-> total_tests,
         passed_tests |-> passed_tests,
         failed_tests |-> total_tests - passed_tests,
         success_rate |-> IF total_tests > 0 THEN [num |-> passed_tests * 100, den |-> total_tests]
                          ELSE [num |-> 0, den |-> 1],
         total_coverage |-> IF "total_coverage" \in DOMAIN s.coverage
                            THEN s.coverage.total_coverage ELSE 0,
         race_tests_passed |-> "success" \in DOMAIN s.race_tests /\ s.race_tests.success,
         static_analysis_passed |->
            \A check \in DOMAIN s.static_analysis : s.static_analysis[check].success]

\* run_all_tests, lines 273-276, and main, lines 346-351: the summary is
\* computed and printed
AlgSummary ==
    /\ prog = "algviz"
    /\ alg.pc = "summary"
    /\ alg' = [alg EXCEPT !.summary = generate_summary(alg), !.summary_printed = TRUE,
                          !.pc = "save"]
    /\ UNCHANGED <<prog, prs, ana, rep, sys, smp>>

\* the exit status taking the race detection into account
AlgSaveAndExit_race_counted ==
    /\ prog = "algviz"
    /\ alg.pc = "save"
    /\ \E written \in BOOLEAN :
          alg' = IF ~written THEN alg_except(alg, alg.outcome, "OSError")
                 ELSE [alg EXCEPT !.saved = TRUE,
                                  !.exit_status =
                                      IF /\ alg.summary.success_rate.num
                                               = 100 * alg.summary.success_rate.den
                                         /\ alg.summary.race_tests_passed
                                      THEN 0 ELSE 1,
                                  !.pc = "done"]
    /\ UNCHANGED <<prog, prs, ana, rep, sys, smp>>

\* main, lines 351-359 and 364-366, with save_results, lines 297-308
AlgSaveAndExit ==
    /\ prog = "algviz"
    /\ alg.pc = "save"
    /\ \E written \in BOOLEAN :
          alg' = IF ~written THEN alg_except(alg, alg.outcome, "OSError")
                 ELSE [alg EXCEPT !.saved = TRUE,
                                  !.exit_status =
                                      IF alg.summary.success_rate.num
                                            = 100 * alg.summary.success_rate.den
                                      THEN 0 ELSE 1,
                                  !.pc = "done"]
    /\ UNCHANGED <<prog, prs, ana, rep, sys, smp>>

(***************************************************************************)
(* CoverageAnalyzer as a program (sample-app/coverage_analysis.py):        *)
(* run_coverage_analysis and main.  subprocess.run is called directly,     *)
(* with no timeout and inside no try: a command that cannot be started     *)
(* raises into main, which catches nothing, and a command that does not    *)
(* finish is waited for.                                                   *)
(***************************************************************************)
AnalyzerTestOutcomes == {Exit(0, ToolTexts.ok, EmptyText), Exit(1, EmptyText, ToolTexts.fail),
                         TimedOut, LaunchFailed, Interrupted}
AnalyzerCoverOutcomes ==
    {Exit(0, <<EntryLine(Words.file_a, Words.f, Percents.p60), TotalLine(Percents.p847)>>, EmptyText),
     Exit(0, <<EntryLine(Words.file_a, Words.f, Percents.p80), TotalLine(Percents.p60)>>, EmptyText),
     Exit(0, <<EntryLine(Words.file_b, Words.g, Percents.p100)>>, EmptyText),
     Exit(0, EmptyText, EmptyText),
     Exit(1, EmptyText, ToolTexts.no_profile),
     TimedOut, LaunchFailed, Interrupted}

\* generate_recommendations, lines 202-245: which advice is given
generate_recommendations(analysis) ==
    [overall |-> IF ~analysis.meets_minimum THEN "below_minimum"
                 ELSE IF ~analysis.meets_target THEN "below_target"
                 ELSE IF ~analysis.meets_excellent THEN "below_excellent"
                 ELSE "excellent",
     files_needing_attention |->
        {f \in DOMAIN analysis.file_analysis : analysis.file_analysis[f].needs_attention},
     files |->
        [f \in DOMAIN analysis.file_analysis |->
            LET coverage == analysis.file_analysis[f].coverage
            IN  IF contains(f, <<"m", "a", "i", "n", ".", "g", "o">>) /\ coverage < 800 THEN "main"
                ELSE IF contains(f, <<"t", "e", "s", "t">>) /\ coverage < 1000 THEN "test"
                ELSE IF coverage < 700 THEN "add"
                ELSE "none"]]

\* __init__ and load_coverage_config, lines 14-31, and main, lines 295-300
\* cwd and sample_app_dir are paths from the directory the run begins in;
\* in_sample_app: that directory is the project root and is named sample-app
AnalyzerInit(config, dir_exists, in_sample_app) ==
    [pc |-> "chdir", coverage_config |-> config, dir_exists |-> dir_exists,
     cwd |-> <<".">>,
     sample_app_dir |-> IF in_sample_app THEN <<".">> ELSE <<".", "sample-app">>,
     results |-> EmptyDict, outcome |-> NoCall, waited |-> FALSE, invoked |-> 0,
     printed |-> FALSE, fault |-> "none", exit_status |-> 0]

\* an exception leaves main, which has no handler (lines 294-312): the
\* interpreter prints the traceback and ends with status 1, or 130 when the
\* operator interrupted
analyzer_raise(s, outcome, fault) ==
    [s EXCEPT !.outcome = outcome, !.fault = fault,
              !.exit_status = IF fault = "KeyboardInterrupt" THEN 130 ELSE 1,
              !.pc = "done"]

\* run_coverage_analysis, lines 49-51: os.chdir
AnalyzerChdir ==
    /\ prog = "analyzer"
    /\ ana.pc = "chdir"
    /\ ana' = IF ana.dir_exists
              THEN [ana EXCEPT !.cwd = ana.sample_app_dir, !.pc = "go_test"]
              ELSE analyzer_raise(ana, ana.outcome, "FileNotFoundError")
    /\ UNCHANGED <<prog, prs, rep, sys, smp, alg>>

\* subprocess.run without timeout, lines 54-57 and 64-66: what comes back
\* to the caller
analyzer_run(s, outcome) ==
    IF outcome.kind = "interrupt" THEN analyzer_raise(s, outcome, "KeyboardInterrupt")
    ELSE IF outcome.kind = "oserror" THEN analyzer_raise(s, outcome, "FileNotFoundError")
    ELSE IF outcome.kind = "timeout" THEN [s EXCEPT !.waited = TRUE]
    ELSE [s EXCEPT !.outcome = outcome]

\* run_coverage_analysis, lines 53-61: go test with a coverage profile
AnalyzerGoTest ==
    /\ prog = "analyzer"
    /\ ana.pc = "go_test"
    /\ \E outcome \in AnalyzerTestOutcomes :
          LET called == analyzer_run([ana EXCEPT !.invoked = 1], outcome)
          IN  ana' = IF outcome.kind # "exit" THEN called
                     ELSE IF outcome.returncode # 0
                     THEN [called EXCEPT !.results = [error |-> "Tests failed"], !.pc = "print"]
                     ELSE [called EXCEPT !.pc = "cover"]
    /\ UNCHANGED <<prog, prs, rep, sys, smp, alg>>

\* run_coverage_analysis, lines 63-85: go tool cover -func, then the report
\* is parsed and analyzed
AnalyzerCover ==
    /\ prog = "analyzer"
    /\ ana.pc = "cover"
    /\ \E outcome \in AnalyzerCoverOutcomes :
          LET called == analyzer_run([ana EXCEPT !.invoked = 2], outcome)
              coverage_data == parse_coverage_output(outcome.stdout)
              analysis == analyze_coverage(ana.coverage_config, coverage_data)
          IN  ana' = IF outcome.kind # "exit" THEN called
                     ELSE IF outcome.returncode # 0
                     THEN [called EXCEPT !.results = [error |-> "Coverage analysis failed"],
                                         !.pc = "print"]
                     ELSE [called EXCEPT
                              !.results = [coverage_data |-> coverage_data,
                                           analysis |-> analysis,
                                           recommendations |-> generate_recommendations(analysis)],
                              !.pc = "print"]
    /\ UNCHANGED <<prog, prs, rep, sys, smp, alg>>

\* main, lines 302-312, with print_analysis, lines 247-292
AnalyzerPrintAndExit ==
    /\ prog = "analyzer"
    /\ ana.pc = "print"
    /\ ana' = [ana EXCEPT !.printed = TRUE,
                          !.exit_status = IF "error" \in DOMAIN ana.results THEN 1
                                          ELSE IF ~ana.results.analysis.meets_minimum THEN 1
                                          ELSE 0,
                          !.pc = "done"]
    /\ UNCHANGED <<prog, prs, rep, sys, smp, alg>>

(***************************************************************************)
(* The programs of the repository.  One run is one program started from    *)
(* its command line, against an environment (present directories, answers  *)
(* of the toolchain) that the actions draw step by step.                   *)
(***************************************************************************)
Init ==
    \/ /\ prog = "reporter"
       /\ rep = RepInit
       /\ prs = Idle /\ ana = Idle /\ sys = Idle /\ smp = Idle /\ alg = Idle
    \/ /\ prog = "systems"
       /\ sys = SysInit
       /\ prs = Idle /\ ana = Idle /\ rep = Idle /\ smp = Idle /\ alg = Idle
    \/ /\ prog = "sample"
       /\ \E args \in CommandLines, stale_profile \in BOOLEAN :
             smp = SmpInit(args, stale_profile)
       /\ prs = Idle /\ ana = Idle /\ rep = Idle /\ sys = Idle /\ alg = Idle
    \/ /\ prog = "algviz"
       /\ \E go_mod \in BOOLEAN, dirs \in SUBSET {"unit", "integration", "performance"} : alg = AlgInit(go_mod, dirs)
       /\ prs = Idle /\ ana = Idle /\ rep = Idle /\ sys = Idle /\ smp = Idle
    \/ /\ prog = "analyzer"
       /\ \E config \in Configs, dir_exists \in BOOLEAN, in_sample_app \in BOOLEAN :
             /\ in_sample_app => dir_exists
             /\ ana = AnalyzerInit(config, dir_exists, in_sample_app)
       /\ prs = Idle /\ rep = Idle /\ sys = Idle /\ smp = Idle /\ alg = Idle

Next ==
    \/ RepNextService \/ RepRunTests \/ RepRunCover \/ RepRunHtml \/ RepSummary \/ RepSaveAndExit
    \/ SysTestSampleApp \/ SysTestService \/ SysSummary \/ SysSaveAndExit
    \/ SmpArgs \/ SmpSkip \/ SmpStaticFmt \/ SmpStaticVet \/ SmpStaticMod \/ SmpUnit \/ SmpIntegration \/ SmpBenchmark \/ SmpCoverageNoProfile \/ SmpCoverageHtml \/ SmpCoverageFunc \/ SmpReport \/ SmpSave \/ SmpSummaryAndExit
    \/ AlgCheckGoMod \/ AlgModTidy \/ AlgSkipTests \/ AlgGoTest \/ AlgGoTestCover \/ AlgTestsDone \/ AlgBenchmark \/ AlgRace \/ AlgStaticVet \/ AlgStaticFmt \/ AlgCoverageTest \/ AlgCoverageHtml \/ AlgCoverageFunc \/ AlgSummary \/ AlgSaveAndExit
    \/ AnalyzerChdir \/ AnalyzerGoTest \/ AnalyzerCover \/ AnalyzerPrintAndExit

Spec == Init /\ [][Next]_vars

(***************************************************************************)
(* The report directory over several runs: save_reports of                 *)
(* automated_reporting.py and save_results_json of test_comprehensive.py   *)
(* write into test-reports/, which outlives each run.  rep holds the       *)
(* directory, the wall clock and the list of the emissions made so far.    *)
(***************************************************************************)
\* the results a run hands to its emission (results["summary"])
Summaries == {[passed |-> 1, failed |-> 0], [passed |-> 0, failed |-> 1]}

\* the wall clock counts half seconds
MaxClock == 3
MaxEmissions == 3

\* datetime.now().strftime('%Y%m%d_%H%M%S'): the time cut to the whole second
strftime(now) == now \div 2

InitEmit ==
    /\ prog = "emit"
    /\ rep = [pc |-> "emit", now |-> 0, files |-> EmptyDict, emitted |-> <<>>]
    /\ prs = Idle /\ ana = Idle /\ sys = Idle /\ smp = Idle /\ alg = Idle

\* time passes between two emissions
Tick ==
    /\ prog = "emit"
    /\ rep.now < MaxClock
    /\ rep' = [rep EXCEPT !.now = @ + 1]
    /\ UNCHANGED <<prog, prs, ana, sys, smp, alg>>

\* save_reports, lines 355-375: open(path, 'w') replaces what the path held
SaveReports ==
    /\ prog = "emit"
    /\ Len(rep.emitted) < MaxEmissions
    /\ \E results \in Summaries :
          LET json_path == <<"report_", strftime(rep.now)>>
              latest_json == <<"latest.json", 0>>
              html_path == <<"test_report.html", 0>>
          IN  rep' = [rep EXCEPT
                         !.files = dict_set(dict_set(dict_set(@, json_path, results),
                                                     latest_json, results),
                                            html_path, results),
                         !.emitted = Append(@, [path |-> json_path, results |-> results])]
    /\ UNCHANGED <<prog, prs, ana, sys, smp, alg>>

\* save_results_json, lines 488-493
SaveResultsJson ==
    /\ prog = "emit"
    /\ Len(rep.emitted) < MaxEmissions
    /\ \E results \in Summaries :
          LET json_file == <<"test_results.json", 0>>
          IN  rep' = [rep EXCEPT
                         !.files = dict_set(@, json_file, results),
                         !.emitted = Append(@, [path |-> json_file, results |-> results])]
    /\ UNCHANGED <<prog, prs, ana, sys, smp, alg>>

SpecEmit == InitEmit /\ [][Tick \/ SaveReports \/ SaveResultsJson]_vars

(***************************************************************************)
(* Properties of the coverage parsers (SpecParse) and of the               *)
(* classification (SpecAnalyze).                                           *)
(***************************************************************************)
\* a percentage as the coverage tool prints it: digits, a point, digits, '%'
IsPercentage(part) ==
    /\ Len(part) >= 2
    /\ part[Len(part)] = PCT
    /\ \A i \in 1..(Len(part) - 1) : IsDigit(part[i]) \/ part[i] = "."
    /\ FloatOk(SubSeq(part, 1, Len(part) - 1))

PercentageOf(part) == FloatVal(SubSeq(part, 1, Len(part) - 1))

\* a total line as the specification writes it: the first word is "total:"
\* and the last word is a percentage ("total: 84.7%" is one, and so is the
\* line of the coverage tool)
IsTotalLine(line) ==
    LET words == split_ws(line)
    IN  /\ Len(words) >= 2
        /\ words[1] = total_marker
        /\ IsPercentage(words[Len(words)])

TotalLinePercent(line) == PercentageOf(split_ws(line)[Len(split_ws(line))])

\* a total line in the layout of "go tool cover -func": tab-separated parts,
\* "total:" first, the percentage last, "(statements)" or padding in between
IsToolTotalLine(line) ==
    LET parts == split(line, <<TAB>>)
    IN  /\ Len(parts) >= 3
        /\ parts[1] = total_marker
        /\ IsPercentage(parts[Len(parts)])
        /\ \E i \in 2..(Len(parts) - 1) : strip(parts[i]) # <<>>
        /\ \A i \in 2..(Len(parts) - 1) : ~contains(parts[i], <<PCT>>)

\* an entry line of the tool: file, function, percentage
IsEntryLine(line) ==
    LET parts == split(line, <<TAB>>)
    IN  /\ Len(parts) = 3
        /\ ~contains(line, total_marker)
        /\ IsPercentage(parts[3])

TotalHolders(output) == {i \in 1..Len(output) : contains(output[i], total_marker)}
OnlyTotalHolder(output) == CHOOSE i \in TotalHolders(output) : TRUE
HasEntries(output) == \E i \in 1..Len(output) : IsEntryLine(output[i])

Ascending(requirements) ==
    requirements.minimum <= requirements.target /\ requirements.target <= requirements.excellent

BandRank(status) ==
    CASE status = "poor" -> 0 [] status = "acceptable" -> 1
      [] status = "good" -> 2 [] status = "excellent" -> 3

\* C8: with ascending thresholds the status is poor below minimum, acceptable
\* from minimum up to target, good from target up to excellent, excellent from
\* excellent on, each band holding its lower edge; no lower coverage gets a
\* higher band (for 70/80/90: 69.9 poor, 70.0 and 79.9 acceptable, 80.0 and
\* 89.9 good, 90.0 excellent).
C8_ClassificationBands ==
    (prog = "analyze" /\ ana.pc = "analyzed"
       /\ Ascending(ana.coverage_config.coverage_requirements.overall))
    => LET requirements == ana.coverage_config.coverage_requirements.overall
           coverage == ana.analysis.total_coverage
           status == ana.analysis.status
       IN  /\ coverage < requirements.minimum => status = "poor"
           /\ (requirements.minimum <= coverage /\ coverage < requirements.target)
                 => status = "acceptable"
           /\ (requirements.target <= coverage /\ coverage < requirements.excellent)
                 => status = "good"
           /\ coverage >= requirements.excellent => status = "excellent"
           /\ \A below \in 0..coverage :
                 BandRank(overall_status(below, requirements)) <= BandRank(status)
           /\ requirements = get_default_config.coverage_requirements.overall
                 => /\ coverage = 699 => status = "poor"
                    /\ coverage \in {700, 799} => status = "acceptable"
                    /\ coverage \in {800, 899} => status = "good"
                    /\ coverage = 900 => status = "excellent"

\* C8 witness: 70.0 under the default thresholds 70/80/90, classified acceptable
C8_Witness ==
    /\ prog = "analyze" /\ ana.pc = "analyzed"
    /\ ana.coverage_config = get_default_config
    /\ ana.analysis.total_coverage = 700
    /\ ana.analysis.status = "acceptable"

(***************************************************************************)
(* Properties of the orchestrators (Spec).                                 *)
(***************************************************************************)
\* C1: an invocation whose command cannot be started, or runs beyond its
\* timeout, comes back to its caller as the sentinel (-1, or False where the
\* runner returns a success flag) with the cause in stderr, and raises nothing.
C1_LaunchFailureIsSentinel ==
    /\ (prog = "reporter" /\ rep.outcome.kind \in {"timeout", "oserror"})
          => rep.ret[1] = -1 /\ ~IsEmptyText(rep.ret[3])
    /\ (prog = "systems" /\ sys.outcome.kind \in {"timeout", "oserror"})
          => sys.ret[1] = -1 /\ ~IsEmptyText(sys.ret[3])
    /\ (prog = "algviz" /\ alg.outcome.kind \in {"timeout", "oserror"})
          => alg.ret[1] = -1 /\ ~IsEmptyText(alg.ret[3])
    /\ (prog = "sample" /\ smp.outcome.kind \in {"timeout", "oserror"})
          => smp.ret[1] = FALSE /\ ~IsEmptyText(smp.ret[3])
    /\ (prog = "analyzer" /\ ana.outcome.kind = "oserror")
          => ana.fault = "none" /\ ana.pc # "done"

\* the units of a run, and the coverage a unit reported
RepUnits == 1..NumServices
SysUnits == {"sample-app"} \cup {system_services[i] : i \in 1..NumSystemServices}

\* C2 as the specification states it, for the runs in which every unit's
\* directory exists and no fault ends the run: the exit status is 0 exactly
\* when every configured unit succeeded and the average coverage is at least
\* the minimum (70).
C2_ExitStatusAsWritten ==
    LET minimum == get_default_config.coverage_requirements.overall.minimum
    IN  /\ (prog = "reporter" /\ rep.pc = "done" /\ rep.fault = "none"
               /\ \A u \in RepUnits : rep.exists[u])
              => (rep.exit_status = 0
                    <=> /\ \A u \in RepUnits :
                              /\ services[u] \in DOMAIN rep.services
                              /\ rep.services[services[u]].status = "PASSED"
                        /\ rep.summary.average_coverage >= 10 * minimum)
        /\ (prog = "systems" /\ sys.pc = "done" /\ sys.fault = "none"
               /\ \A name \in DOMAIN sys.exists : sys.exists[name])
              => (sys.exit_status = 0
                    <=> /\ \A name \in SysUnits : get_success(sys.results[name])
                        /\ sys.summary.average_coverage.num
                              >= minimum * sys.summary.average_coverage.den)

\* C2, amended: the exit status is 0 exactly when the reports were written
\* and no unit that was run has a failed result (a unit of automated_reporting
\* whose directory is missing is not run; in test_all_systems it counts as
\* failed), whatever the coverage is; a failed unit makes it nonzero.
C2_ExitStatusFollowsFailures ==
    /\ (prog = "reporter" /\ rep.pc = "done")
          => (rep.exit_status = 0
                <=> /\ rep.saved
                    /\ \A name \in DOMAIN rep.services : rep.services[name].status = "PASSED")
    /\ (prog = "systems" /\ sys.pc = "done")
          => (sys.exit_status = 0
                <=> /\ sys.saved
                    /\ \A name \in SysUnits : get_success(sys.results[name]))

\* C2 witness: every unit passed, the average coverage is 60.0, below 70, and
\* the exit status is 0
C2_Witness ==
    /\ prog = "reporter" /\ rep.pc = "done" /\ rep.exit_status = 0
    /\ \A u \in RepUnits : /\ services[u] \in DOMAIN rep.services
                           /\ rep.services[services[u]].status = "PASSED"
                           /\ rep.services[services[u]].coverage = 600
    /\ rep.summary.average_coverage = 6000

RequestedPhases(args) == SelectSeq(Phases, LAMBDA phase : requested(args, phase))

PresentPaths(paths, dirs) == SelectSeq(paths, LAMBDA path : path \in dirs)

AlgPhases(dirs) ==
    PresentPaths(test_paths, dirs)
       \o [i \in 1..Len(PresentPaths(benchmark_paths, dirs)) |-> "benchmark"]
       \o <<"race", "static", "coverage">>

\* C3: a run that no exception ended has invoked every requested phase, in
\* order, whichever of them failed by a nonzero exit, a timeout or a launch
\* failure (test_comprehensive: the phases the flags ask for; the
\* algorithm-visualization suite, once its setup is done: the test suites and
\* benchmarks whose directories exist, race, static analysis, coverage).
C3_PhaseFailureIsolation ==
    /\ (prog = "sample" /\ smp.pc \in {"save", "summary", "done"} /\ smp.fault = "none")
          => smp.started = RequestedPhases(smp.args)
    /\ (prog = "algviz" /\ alg.pc \in {"summary", "save", "done"} /\ alg.fault = "none"
           /\ ~alg.error)
          => alg.started = AlgPhases(alg.dirs)

\* C3 witness: --all, the unit tests failed, and every phase up to the report
\* was invoked all the same
C3_Witness ==
    /\ prog = "sample" /\ smp.pc = "done" /\ smp.fault = "none"
    /\ smp.args.all
    /\ ~smp.tests["unit"].success
    /\ ~smp.static_analysis["vet"]
    /\ smp.started = Phases

\* what a phase of test_comprehensive has left when it succeeded
PhaseSucceeded(s, phase) ==
    CASE phase = "static" ->
            /\ DOMAIN s.static_analysis = {"fmt", "vet", "mod_verify"}
            /\ \A check \in DOMAIN s.static_analysis : s.static_analysis[check]
      [] phase = "unit" -> "unit" \in DOMAIN s.tests /\ s.tests["unit"].success
      [] phase = "integration" ->
            "integration" \in DOMAIN s.tests /\ s.tests["integration"].success
      [] phase = "benchmark" -> "success" \in DOMAIN s.benchmarks /\ s.benchmarks["success"]
      [] phase = "coverage" ->
            "percentage" \in DOMAIN s.coverage /\ s.coverage["percentage"] >= 1000
      [] phase = "report" -> s.html_report

\* C4: the run reports success (exit status 0) exactly when every requested
\* phase succeeded; a phase that was not requested does not count.
C4_OverallSuccessOfRequested ==
    (prog = "sample" /\ smp.pc = "done" /\ smp.fault = "none")
    => (smp.exit_status = 0
          <=> \A phase \in FlagNames :
                 requested(smp.args, phase) => PhaseSucceeded(smp, phase))

\* C5: a unit whose directory does not exist gets no subprocess and a failed
\* result, which the summary counts among the failed units.
C5_MissingDirectoryIsFailedUnit ==
    /\ prog = "reporter"
          => \A u \in DOMAIN rep.exists :
                ~rep.exists[u]
                => /\ rep.invoked[u] = 0
                   /\ services[u] \in DOMAIN rep.services
                   /\ rep.services[services[u]].status = "FAILED"
                   /\ rep.pc \in {"save", "done"} => rep.summary.failed >= 1
    /\ prog = "systems"
          => \A name \in DOMAIN sys.exists :
                ~sys.exists[name]
                => /\ sys.invoked[name] = 0
                   /\ name \in DOMAIN sys.results
                   /\ ~get_success(sys.results[name])
                   /\ sys.pc \in {"save", "done"} => sys.summary.failed_services >= 1

\* what get_service_coverage answers for unit u from that unit's own
\* invocations alone
RepAlone(u) ==
    LET tests == run_command(rep.tests[u])
    IN  IF tests[1] # 0
        THEN [status |-> "FAILED", coverage |-> 0,
              error |-> IF ~IsEmptyText(tests[3]) THEN tests[3] ELSE tests[2]]
        ELSE LET cover == run_command(rep.cover[u])
             IN  IF cover[1] # 0
                 THEN [status |-> "PASSED", coverage |-> 0, details |-> "No coverage data"]
                 ELSE [status |-> "PASSED",
                       coverage |-> parse_func_output(cover[2]).total_coverage,
                       function_coverage |-> parse_func_output(cover[2]).function_coverage,
                       html_report |-> "coverage.html"]

\* C6: when the batch is over every configured unit has been visited, and
\* every unit whose directory exists has been run and has the result its own
\* invocations give when it is run alone, whatever happened to the others
\* (directory absent, tests failed, timeout).
C6_UnitIsolation ==
    /\ (prog = "reporter" /\ rep.pc \in {"save", "done"})
          => /\ DOMAIN rep.exists = RepUnits
             /\ \A u \in RepUnits :
                   rep.exists[u]
                   => /\ u \in DOMAIN rep.tests
                      /\ rep.invoked[u] >= 1
                      /\ services[u] \in DOMAIN rep.services
                      /\ rep.services[services[u]] = RepAlone(u)
    /\ (prog = "systems" /\ sys.pc \in {"save", "done"})
          => /\ DOMAIN sys.results = SysUnits
             /\ \A name \in SysUnits :
                   (name \in DOMAIN sys.exists => sys.exists[name])
                   => /\ name \in DOMAIN sys.tests
                      /\ sys.results[name] = test_result(system_run_command(sys.tests[name]))

\* C6 witness: the first unit timed out, the second has no directory, and the
\* third was run and passed with its 80.0%
C6_Witness ==
    /\ prog = "reporter" /\ rep.pc = "done"
    /\ rep.exists[1] /\ rep.tests[1] = TimedOut
    /\ rep.services[services[1]].status = "FAILED"
    /\ ~rep.exists[2]
    /\ rep.exists[3]
    /\ rep.services[services[3]].status = "PASSED"
    /\ rep.services[services[3]].coverage = 800

\* a unit that reported a coverage value: its tests passed, the coverage tool
\* answered and its output held a total
RepMeasured(u) ==
    /\ u \in DOMAIN rep.exists /\ rep.exists[u]
    /\ u \in DOMAIN rep.tests /\ run_command(rep.tests[u])[1] = 0
    /\ u \in DOMAIN rep.cover /\ run_command(rep.cover[u])[1] = 0
    /\ \E i \in 1..Len(rep.cover[u].stdout) : IsToolTotalLine(rep.cover[u].stdout[i])

SysMeasured(name) ==
    /\ name \in DOMAIN sys.results
    /\ get_success(sys.results[name])
    /\ "coverage" \in DOMAIN sys.results[name]

\* C7: the average coverage of the summary is the mean over the units that
\* reported a coverage value; a unit without one (tests failed, directory
\* missing, coverage tool failed, no total line) is not in the denominator
\* (no-data, 80 and 60 average to 70.0).
C7_AverageOverMeasuredUnits ==
    /\ (prog = "reporter" /\ rep.pc \in {"save", "done"})
          => LET measured == {services[u] : u \in {v \in RepUnits : RepMeasured(v)}}
             IN  rep.summary.average_coverage =
                    IF measured = {} THEN 0
                    ELSE round_div(10 * sum_coverage(rep.services, measured),
                                   Cardinality(measured))
    /\ (prog = "systems" /\ sys.pc \in {"save", "done"})
          => LET measured == {name \in SysUnits : SysMeasured(name)}
                 average == sys.summary.average_coverage
             IN  IF measured = {} THEN average.num = 0
                 ELSE average.num * Cardinality(measured)
                         = sum_coverage(sys.results, measured) * average.den

(***************************************************************************)
\* C11: parsing the coverage text never raises: whatever the text is, also
\* with a total line or an entry line whose percentage token is no number,
\* the parse completes and its caller goes on with a report.
C11_ParserNeverThrows ==
    /\ prog = "sample" => smp.fault # "ValueError"
    /\ prog = "reporter" => rep.fault # "ValueError"
    /\ prog = "analyzer" => ana.fault # "ValueError"
    /\ prog = "algviz" => alg.fault # "ValueError"

(***************************************************************************)
\* C12: a historical record is never overwritten: after n emissions the n
\* records written are n distinct files of the report directory, and each
\* still holds the results it was written with.
C12_HistoricalRecordsKept ==
    prog = "emit" =>
       \A i \in 1..Len(rep.emitted) :
          /\ rep.emitted[i].path \in DOMAIN rep.files
          /\ rep.files[rep.emitted[i].path] = rep.emitted[i].results
          /\ \A j \in 1..Len(rep.emitted) :
                j # i => rep.emitted[j].path # rep.emitted[i].path

(***************************************************************************)
\* C13: a run that the operator does not interrupt ends with its summary
\* computed and printed, also when units, phases or setup steps failed.
C13_SummaryAlwaysPrints ==
    /\ (prog = "algviz" /\ alg.pc = "done" /\ alg.fault # "KeyboardInterrupt")
          => alg.summary_printed
    /\ (prog = "sample" /\ smp.pc = "done" /\ smp.fault # "KeyboardInterrupt")
          => smp.summary_printed

(***************************************************************************)
\* a unit of test_all_systems.py without coverage data: its directory is
\* missing, its tests failed, or no line of the output holds "coverage:"
\* followed by a number
SysNoData(r) ==
    \/ ~get_success(r)
    \/ ~\E i \in 1..Len(r.stdout) :
           /\ contains(r.stdout[i], coverage_marker)
           /\ contains(r.stdout[i], <<PCT>>)
           /\ FloatOk(strip(split(split(r.stdout[i], coverage_marker)[2], <<PCT>>)[1]))

\* C14: "no data" is never turned into 0%: a unit without coverage data, and
\* an analysis of a coverage output without a total line, carry no coverage
\* value 0 downstream.
C14_NoDataIsNotZero ==
    /\ prog = "reporter" =>
          \A u \in RepUnits :
             (services[u] \in DOMAIN rep.services /\ ~RepMeasured(u))
                => rep.services[services[u]].coverage # 0
    /\ prog = "systems" =>
          \A name \in DOMAIN sys.results :
             (SysNoData(sys.results[name]) /\ "coverage" \in DOMAIN sys.results[name])
                => sys.results[name].coverage # 0
    /\ (prog = "analyzer" /\ "analysis" \in DOMAIN ana.results
           /\ ana.results.coverage_data.total = EmptyDict)
          => ana.results.analysis.total_coverage # 0

(***************************************************************************)
\* C15: one comparison against the configured thresholds classifies the
\* project total and each entry: a file whose coverage equals the total gets
\* the band of the total (the lowest band is named poor for the total and
\* needs_improvement for a file).
C15_IdenticalClassification ==
    (prog = "analyze" /\ ana.pc = "analyzed") =>
       \A f \in DOMAIN ana.analysis.file_analysis :
          ana.analysis.file_analysis[f].coverage = ana.analysis.total_coverage =>
             LET entry == ana.analysis.file_analysis[f].status
                 total == ana.analysis.status
             IN  entry = total \/ (entry = "needs_improvement" /\ total = "poor")

(***************************************************************************)
\* the band a label of the presentation stands for
PresentedRank(label) ==
    CASE label \in {"coverage-poor", "needs_improvement"} -> 0
      [] label \in {"coverage-fair", "acceptable"} -> 1
      [] label \in {"coverage-good", "good"} -> 2
      [] label \in {"coverage-excellent", "excellent"} -> 3

\* C16: the presentation has no thresholds of its own: the band the HTML
\* report and the printed coverage breakdown show for a unit is the band the
\* threshold classification (minimum/target/excellent) gives its coverage.
C16_PresentationUsesThresholds ==
    LET requirements == get_default_config.coverage_requirements.overall
    IN  /\ (prog = "reporter" /\ rep.saved) =>
              \A name \in DOMAIN rep.html :
                 PresentedRank(rep.html[name])
                    = BandRank(overall_status(rep.services[name].coverage, requirements))
        /\ (prog = "systems" /\ sys.pc = "done") =>
              \A name \in DOMAIN sys.breakdown :
                 PresentedRank(sys.breakdown[name])
                    = BandRank(overall_status(get_coverage(sys.results[name]), requirements))

(***************************************************************************)
\* C17: of several total lines the first wins: when the text holds two or
\* more total lines of the coverage tool, both parsers give the percentage of
\* the first of them in text order.
C17_FirstTotalWins ==
    (/\ prog = "parse" /\ prs.pc = "parsed"
     /\ Cardinality(TotalHolders(prs.output)) >= 2
     /\ \A i \in TotalHolders(prs.output) : IsToolTotalLine(prs.output[i]))
    => LET first == CHOOSE i \in TotalHolders(prs.output) :
                       \A j \in TotalHolders(prs.output) : i <= j
           percent == TotalLinePercent(prs.output[first])
       IN  /\ "coverage" \in DOMAIN prs.coverage_data.total
           /\ prs.coverage_data.total.coverage = percent
           /\ prs.service.total_coverage = percent

(***************************************************************************)
\* C18: every percentage a parsed report keeps, the total and each entry,
\* lies in [0, 100] (0..1000 tenths): a line with a percentage outside the
\* range leaves nothing in the report.
C18_PercentRange ==
    (prog = "parse" /\ prs.pc = "parsed") =>
       LET InRange(coverage) == 0 <= coverage /\ coverage <= 1000
       IN  /\ \A f \in DOMAIN prs.coverage_data.files :
                 InRange(prs.coverage_data.files[f].coverage)
           /\ "coverage" \in DOMAIN prs.coverage_data.total
                 => InRange(prs.coverage_data.total.coverage)
           /\ InRange(prs.service.total_coverage)
           /\ \A i \in 1..Len(prs.service.function_coverage) :
                 InRange(prs.service.function_coverage[i].coverage)

(***************************************************************************)
\* C19: the coverage-summary command (go tool cover -func) of a unit is
\* issued only after the unit tests of that unit passed in the same run, and
\* a run whose unit tests failed or were not run reports no coverage.
C19_CoverageSummaryAfterUnitPhase ==
    /\ (prog = "reporter" /\ rep.pc = "cover") => run_command(rep.tests[rep.i])[1] = 0
    /\ (prog = "algviz" /\ alg.pc = "test_cover") => alg.ret[1] = 0
    /\ (prog = "sample" /\ (smp.pc = "coverage_func" \/ "percentage" \in DOMAIN smp.coverage))
          => ("unit" \in DOMAIN smp.tests /\ smp.tests["unit"].success)

(***************************************************************************)
\* C20: when no unit reported a coverage value the summary is computed
\* without a division by zero, its average is 0.0, and it is told apart from
\* the summary of a run whose passed units all measured 0%: it equals none
\* of the summaries such a run gives.
C20_NoDataSummary ==
    (prog = "reporter" /\ rep.pc \in {"save", "done"}
       /\ \A u \in RepUnits : ~RepMeasured(u))
    => /\ rep.summary.average_coverage = 0
       /\ \A passed \in 1..NumServices, failed \in 0..NumServices :
             rep.summary # summary_of(passed, failed, to_float(0))

(***************************************************************************)
(* The aggregation of AutomatedReporter.analyze_all_services taken alone:  *)
(* the loop of lines 133-156 and the summary of lines 158-168 over unit    *)
(* results that arrive in some order.                                      *)
(***************************************************************************)
MaxUnits == 4

\* results of get_service_coverage: a failed unit, and passed units that
\* measured 6.8%, 2.0%, 41.1% and 56.2%
UnitResults ==
    {[status |-> "FAILED", coverage |-> 0]}
    \cup {[status |-> "PASSED", coverage |-> tenths] : tenths \in {68, 20, 411, 562}}

RECURSIVE merge_results(_, _)
merge_results(r, results) ==
    IF results = <<>> THEN r
    ELSE merge_results(record_result(r, Head(results)), Tail(results))

aggregate(results) ==
    LET r == merge_results(RepInit, results)
    IN  summary_of(r.passed_count, r.failed_count, r.total_coverage)

InitAggregate ==
    /\ prog = "aggregate"
    /\ \E n \in 1..MaxUnits : \E results \in [1..n -> UnitResults] :
          rep = [pc |-> "results", results |-> results, summary |-> EmptyDict]
    /\ prs = Idle /\ ana = Idle /\ sys = Idle /\ smp = Idle /\ alg = Idle

Aggregate ==
    /\ prog = "aggregate"
    /\ rep.pc = "results"
    /\ rep' = [rep EXCEPT !.summary = aggregate(rep.results), !.pc = "summary"]
    /\ UNCHANGED <<prog, prs, ana, sys, smp, alg>>

SpecAggregate == InitAggregate /\ [][Aggregate]_vars

(***************************************************************************)
\* C21: the summary statistics (total, passed, failed, average coverage,
\* pass rate) of a set of unit results are the same for every order in
\* which the unit results are merged.
C21_MergeOrderIndependent ==
    (prog = "aggregate" /\ rep.pc = "summary")
    => LET n == Len(rep.results)
       IN  \A order \in {p \in [1..n -> 1..n] : \A i, j \in 1..n : p[i] = p[j] => i = j} :
              aggregate([i \in 1..n |-> rep.results[order[i]]]) = rep.summary

(***************************************************************************)
\* C22: an operator interrupt that arrives while a command runs is not
\* taken as a failed command: the run ends there with a nonzero exit status,
\* and from then on it takes no step, so no further phase is started and
\* the remaining requested phases are skipped.
C22_InterruptStopsRun ==
    [][/\ prog = "sample" =>
             /\ smp.outcome.kind # "interrupt"
             /\ (smp'.outcome.kind = "interrupt" =>
                   /\ smp'.fault = "KeyboardInterrupt"
                   /\ smp'.pc = "done" /\ smp'.exit_status # 0
                   /\ Len(smp'.started) <= Len(smp.started) + 1
                   /\ ~smp'.saved /\ ~smp'.summary_printed)
       /\ prog = "algviz" =>
             /\ alg.outcome.kind # "interrupt"
             /\ (alg'.outcome.kind = "interrupt" =>
                   /\ alg'.fault = "KeyboardInterrupt"
                   /\ alg'.pc = "done" /\ alg'.exit_status # 0
                   /\ Len(alg'.started) <= Len(alg.started) + 1)
       /\ prog = "analyzer" =>
             /\ ana.outcome.kind # "interrupt"
             /\ (ana'.outcome.kind = "interrupt" =>
                   /\ ana'.fault = "KeyboardInterrupt"
                   /\ ana'.pc = "done" /\ ana'.exit_status # 0)]_vars

\* the unit tests of a run of all phases were interrupted: the four phases
\* after them were never started
C22_Witness ==
    /\ prog = "sample"
    /\ smp.args.all
    /\ smp.outcome.kind = "interrupt"
    /\ smp.started = <<"static", "unit">>
    /\ smp.exit_status = 130

(***************************************************************************)
\* C23: every external invocation returns, by completion or by timeout: at
\* no call site does the caller wait for a command that never exits, and a
\* command that outlived its time limit has given the caller its failure
\* result.
C23_EveryInvocationReturns ==
    /\ (prog = "reporter" /\ rep.outcome.kind = "timeout") => rep.ret[1] = -1
    /\ (prog = "systems" /\ sys.outcome.kind = "timeout") => sys.ret[1] = -1
    /\ (prog = "sample" /\ smp.outcome.kind = "timeout") => ~smp.ret[1]
    /\ (prog = "algviz" /\ alg.outcome.kind = "timeout") => alg.ret[1] = -1
    /\ prog = "analyzer" => ~ana.waited

(***************************************************************************)
\* C24: no operation changes the working directory of the process: after
\* every operation it is the directory the run began in.
C24_WorkingDirectoryKept ==
    prog = "analyzer" => ana.cwd = <<".">>

(***************************************************************************)
\* C25: in the summary of analyze_all_services on a fresh reporter, passed
\* plus failed equals total_services and the number of entries of the
\* results; every FAILED entry has coverage 0.0; a configured unit whose
\* directory is missing is in neither count and has no entry.
C25_SummaryCountsEntries ==
    (prog = "reporter" /\ rep.summary # EmptyDict)
    => /\ rep.summary.passed + rep.summary.failed = rep.summary.total_services
       /\ rep.summary.total_services = Cardinality(DOMAIN rep.services)
       /\ rep.summary.passed
             = Cardinality({name \in DOMAIN rep.services : rep.services[name].status = "PASSED"})
       /\ rep.summary.failed
             = Cardinality({name \in DOMAIN rep.services : rep.services[name].status = "FAILED"})
       /\ \A name \in DOMAIN rep.services :
             rep.services[name].status = "FAILED" => rep.services[name].coverage = 0
       /\ \A u \in RepUnits : services[u] \in DOMAIN rep.services <=> rep.exists[u]

\* a run with a missing directory, a failed and a passed unit
C25_Witness ==
    /\ prog = "reporter"
    /\ rep.summary # EmptyDict
    /\ rep.summary.passed = 1 /\ rep.summary.failed = 1
    /\ \E u \in RepUnits : ~rep.exists[u]

(***************************************************************************)
\* C26: every result of test_service and test_sample_app carries a
\* 'coverage' field, whatever the exit status and the output were, a
\* successful run without a coverage line included; the field is 0 whenever
\* 'success' is false.
C26_ResultCarriesCoverage ==
    prog = "systems"
    => \A name \in DOMAIN sys.results :
          /\ "coverage" \in DOMAIN sys.results[name]
          /\ ~get_success(sys.results[name]) => sys.results[name].coverage = 0

(***************************************************************************)
\* the phases begun so far are the first ones of the selected phases in the
\* order of main; the results are saved once every selected phase was begun,
\* and the summary is printed once the results are saved
SmpInOrder ==
    /\ Len(smp.started) <= Len(RequestedPhases(smp.args))
    /\ smp.started = SubSeq(RequestedPhases(smp.args), 1, Len(smp.started))
    /\ smp.saved => smp.started = RequestedPhases(smp.args)
    /\ smp.summary_printed => smp.saved

C28_SetupFailureEndsRun ==
    prog = "algviz"
    => /\ (alg.pc # "setup" /\ ~alg.go_mod) => alg.error
       /\ (alg.pc \notin {"setup", "tidy"} /\ alg.started = <<>>
             /\ alg.fault = "none" /\ alg.ret[1] # 0) => alg.error
       /\ alg.error => /\ alg.pc = "done"
                       /\ alg.started = <<>>
                       /\ alg.tests = EmptyDict /\ alg.benchmarks = EmptyDict
                       /\ alg.race_tests = EmptyDict /\ alg.static_analysis = EmptyDict
                       /\ alg.coverage = EmptyDict
                       /\ ~alg.summary_printed /\ ~alg.saved
                       /\ alg.exit_status # 0

\* go mod tidy failed in a project that holds all three suites
C28_Witness ==
    /\ prog = "algviz"
    /\ alg.error
    /\ alg.go_mod /\ alg.ret[1] # 0
    /\ alg.dirs = {"unit", "integration", "performance"}

(***************************************************************************)
\* at least one test suite directory is present and every present suite passed
AlgSuitesPassed ==
    LET present == {test_paths[k] : k \in 1..Len(test_paths)} \cap alg.dirs
    IN  /\ present # {}
        /\ \A suite \in present : suite \in DOMAIN alg.tests /\ alg.tests[suite].success

\* C29 as the specification states it: once setup succeeded the exit status
\* is 0 exactly when at least one test suite directory was present and every
\* present suite passed; failures of the race detection, of the static
\* analysis, of the benchmarks or of the coverage generation never change
\* the exit status.
C29_ExitStatusIsSuiteStatus ==
    (prog = "algviz" /\ alg.pc = "done" /\ ~alg.error)
    => (alg.exit_status = 0 <=> AlgSuitesPassed)

\* C29, amended: that holds in a run that wrote its results file; a run that
\* an exception or an operator interrupt ends exits with status 1 whatever
\* the suites gave.
C29_ExitStatusOfCompletedRun ==
    (prog = "algviz" /\ alg.pc = "done" /\ ~alg.error)
    => IF alg.fault = "none"
       THEN alg.saved /\ (alg.exit_status = 0 <=> AlgSuitesPassed)
       ELSE ~alg.saved /\ alg.exit_status = 1

\* a run that exits 0 although the race detection, a static check and the
\* coverage generation failed
C29_Witness ==
    /\ prog = "algviz"
    /\ alg.pc = "done" /\ alg.fault = "none"
    /\ alg.exit_status = 0
    /\ ~alg.race_tests.success
    /\ \E check \in DOMAIN alg.static_analysis : ~alg.static_analysis[check].success
    /\ "error" \in DOMAIN alg.coverage

(***************************************************************************)
\* C30: for every loaded threshold configuration and every total coverage
\* the status analyze_coverage returns agrees with the flags it returns:
\* the status is 'poor' exactly when meets_minimum is false and 'excellent'
\* exactly when meets_excellent is true.
C30_StatusAgreesWithFlags ==
    (prog = "analyze" /\ ana.pc = "analyzed")
    => /\ ana.analysis.status = "poor" <=> ~ana.analysis.meets_minimum
       /\ ana.analysis.status = "excellent" <=> ana.analysis.meets_excellent

====
